---- MODULE Spec2Model ----
(***************************************************************************)
(* Model of the roadmap endpoint of ai-studypath                           *)
(* (src/src/app/api/roadmap/route.ts): the POST handler, the provider      *)
(* call of generateRoadmapWithAI, the response-normalization pipeline and  *)
(* the deterministic fallback generator.                                   *)
(*                                                                         *)
(* Conventions of the model                                                *)
(*  - A JavaScript string is a sequence of tokens (TLA+ strings); the      *)
(*    characters of a request goal are one token each, the constant parts  *)
(*    of a template literal are one token per run of characters.           *)
(*  - A JavaScript number is int + (frac ? 0.5 : 0): the JSON body may     *)
(*    carry non-integers, and the code only tests typeof and < 1.          *)
(*  - A JavaScript value is a record [ty, str, int, frac]; ty is the       *)
(*    typeof-level kind ("undefined" stands for a missing field).          *)
(***************************************************************************)
EXTENDS Integers, Sequences, FiniteSets, TLC

\* Bounds of the model.
MaxGoalLen == 2
MaxHours == 5
MaxWeeks == 3

----------------------------------------------------------------------------
\* JavaScript values

Undefined == [ty |-> "undefined", str |-> <<>>, int |-> 0, frac |-> FALSE]

Null == [ty |-> "null", str |-> <<>>, int |-> 0, frac |-> FALSE]

StrVal(s) == [ty |-> "string", str |-> s, int |-> 0, frac |-> FALSE]

NumVal(i, f) == [ty |-> "number", str |-> <<>>, int |-> i, frac |-> f]

IntVal(i) == NumVal(i, FALSE)

ArrVal(s) == [ty |-> "array", str |-> s, int |-> 0, frac |-> FALSE]

\* ToBoolean: what `!v` and `v || d` test.
Truthy(v) ==
  CASE v.ty = "undefined" -> FALSE
    [] v.ty = "null" -> FALSE
    [] v.ty = "string" -> Len(v.str) > 0
    [] v.ty = "number" -> ~(v.int = 0 /\ ~v.frac)
    [] OTHER -> TRUE

\* typeof v (an array is an "object" for typeof; Array.isArray tells it apart).
TypeOf(v) == IF v.ty \in {"array", "null"} THEN "object" ELSE v.ty

IsArray(v) == v.ty = "array"

\* v < 1 for a number v = int + frac/2.
LessThanOne(v) == v.int < 1

\* Math.floor(v / k) for a number v >= 0 and an integer k >= 1.
FloorDiv(v, k) == v.int \div k

Max(a, b) == IF a >= b THEN a ELSE b

Whitespace == {" ", "\n"}

RECURSIVE TrimStart(_)
TrimStart(s) ==
  IF s # <<>> /\ Head(s) \in Whitespace THEN TrimStart(Tail(s)) ELSE s

RECURSIVE TrimEnd(_)
TrimEnd(s) ==
  IF s # <<>> /\ s[Len(s)] \in Whitespace
    THEN TrimEnd(SubSeq(s, 1, Len(s) - 1))
    ELSE s

\* String.prototype.trim
Trim(s) == TrimEnd(TrimStart(s))

----------------------------------------------------------------------------
\* Roadmap values: interface Topic, RoadmapWeek, RoadmapResponse.  Every
\* JSON value the pipeline handles has one of these three shapes; ty says
\* what the value really is ("object", "null", "number", ...), and a field
\* of a value that is no object reads as Undefined.

ArrayOf(items) == [ty |-> "array", items |-> items]

NotArray(ty) == [ty |-> ty, items |-> <<>>]

TopicObj(title, description, estimatedHours, whyImportant, whyThisOrder, commands, files, tools, outcome) ==
  [ty |-> "object", title |-> title, description |-> description,
   estimatedHours |-> estimatedHours, whyImportant |-> whyImportant,
   whyThisOrder |-> whyThisOrder, commands |-> commands, files |-> files,
   tools |-> tools, outcome |-> outcome]

WeekObj(week, summary, topics, resources) ==
  [ty |-> "object", week |-> week, summary |-> summary, topics |-> topics,
   resources |-> resources]

RoadmapObj(goal, totalWeeks, weeklyHours, roadmap) ==
  [ty |-> "object", goal |-> goal, totalWeeks |-> totalWeeks,
   weeklyHours |-> weeklyHours, roadmap |-> roadmap]

\* A JSON value that is not an object, seen through the same fields.
NonObjectTopic(ty) ==
  [TopicObj(Undefined, Undefined, Undefined, Undefined, Undefined,
            Undefined, Undefined, Undefined, Undefined) EXCEPT !.ty = ty]

NonObjectWeek(ty) ==
  [WeekObj(Undefined, Undefined, NotArray("undefined"), Undefined)
     EXCEPT !.ty = ty]

NonObjectRoadmap(ty) ==
  [RoadmapObj(Undefined, Undefined, Undefined, NotArray("undefined"))
     EXCEPT !.ty = ty]

\* Reading a property of null (or undefined) throws a TypeError.
ThrowsOnRead(v) == v.ty \in {"null", "undefined"}

----------------------------------------------------------------------------
\* generateIntelligentFallback

\* s.split(":")[1]: the tokens between the first and the second ":".
RECURSIVE UpToColon(_)
UpToColon(s) ==
  IF s = <<>> \/ Head(s) = ":" THEN <<>> ELSE <<Head(s)>> \o UpToColon(Tail(s))

RECURSIVE AfterColon(_)
AfterColon(s) ==
  IF s = <<>> THEN <<>>
  ELSE IF Head(s) = ":" THEN Tail(s) ELSE AfterColon(Tail(s))

SplitColonSecond(s) == UpToColon(AfterColon(s))

\* xs.join(", ")
RECURSIVE Join(_)
Join(xs) ==
  IF xs = <<>> THEN <<>>
  ELSE IF Len(xs) = 1 THEN xs[1]
  ELSE xs[1] \o <<", ">> \o Join(Tail(xs))

\* Mutant: estimatedHours without its minimum of one.
FallbackTopic_NoMinimumHours(goal, weeklyHours, topicsPerWeek, week, t) ==
  LET topicIndex == (week - 1) * topicsPerWeek + t + 1
  IN TopicObj(
       StrVal(<<"Day", " ", ToString(topicIndex), ":", " ",
                "Focused topic for", " ">> \o goal),
       StrVal(<<"Work on a concrete, practical topic related to", " ">>
                \o goal
                \o <<"; include hands-on exercises and small deliverables.">>),
       IntVal(FloorDiv(weeklyHours, Max(1, topicsPerWeek))),
       StrVal(<<"This topic provides a concrete skill that builds towards",
                " ">> \o goal \o <<".">>),
       StrVal(<<"This topic follows prior weeks to ensure prerequisite knowledge.">>),
       ArrVal(<<"# Follow the course instructions and run relevant commands">>),
       ArrVal(<<"README.md">>),
       ArrVal(<<"VS Code", "Terminal">>),
       StrVal(<<"Small deliverable demonstrating the topic (e.g., sample code, tests).">>))

\* Mutant: a title with a dash where the summary expects the colon.
FallbackTopic_NoColon(goal, weeklyHours, topicsPerWeek, week, t) ==
  LET topicIndex == (week - 1) * topicsPerWeek + t + 1
  IN TopicObj(
       StrVal(<<"Day", " ", ToString(topicIndex), " -", " ",
                "Focused topic for", " ">> \o goal),
       StrVal(<<"Work on a concrete, practical topic related to", " ">>
                \o goal
                \o <<"; include hands-on exercises and small deliverables.">>),
       IntVal(Max(1, FloorDiv(weeklyHours, Max(1, topicsPerWeek)))),
       StrVal(<<"This topic provides a concrete skill that builds towards",
                " ">> \o goal \o <<".">>),
       StrVal(<<"This topic follows prior weeks to ensure prerequisite knowledge.">>),
       ArrVal(<<"# Follow the course instructions and run relevant commands">>),
       ArrVal(<<"README.md">>),
       ArrVal(<<"VS Code", "Terminal">>),
       StrVal(<<"Small deliverable demonstrating the topic (e.g., sample code, tests).">>))

FallbackTopic(goal, weeklyHours, topicsPerWeek, week, t) ==
  LET topicIndex == (week - 1) * topicsPerWeek + t + 1
  IN TopicObj(
       StrVal(<<"Day", " ", ToString(topicIndex), ":", " ",
                "Focused topic for", " ">> \o goal),
       StrVal(<<"Work on a concrete, practical topic related to", " ">>
                \o goal
                \o <<"; include hands-on exercises and small deliverables.">>),
       IntVal(Max(1, FloorDiv(weeklyHours, Max(1, topicsPerWeek)))),
       StrVal(<<"This topic provides a concrete skill that builds towards",
                " ">> \o goal \o <<".">>),
       StrVal(<<"This topic follows prior weeks to ensure prerequisite knowledge.">>),
       ArrVal(<<"# Follow the course instructions and run relevant commands">>),
       ArrVal(<<"README.md">>),
       ArrVal(<<"VS Code", "Terminal">>),
       StrVal(<<"Small deliverable demonstrating the topic (e.g., sample code, tests).">>))

FallbackWeek(goal, weeklyHours, topicsPerWeek, week) ==
  LET topics == [t \in 1..topicsPerWeek |->
                   FallbackTopic(goal, weeklyHours, topicsPerWeek, week, t - 1)]
      names == [i \in 1..Len(topics) |->
                   Trim(SplitColonSecond(topics[i].title.str))]
  IN WeekObj(
       IntVal(week),
       StrVal(<<"Week", " ", ToString(week), " ", "focuses on", " ">>
                \o Join(names)),
       ArrayOf(topics),
       ArrVal(<<"Official documentation", "Relevant tutorials", "Example repos">>))

\* x.title.split(":")[1] is undefined for a title with no ":", and .trim()
\* on it throws a TypeError (line 200).
HasColon(s) == \E i \in 1..Len(s) : s[i] = ":"

FallbackThrows(goal, weeklyHours, totalDuration, topicsPerWeek) ==
  \E week \in 1..Max(0, totalDuration.int) :
    \E t \in 1..topicsPerWeek :
      ~HasColon(
         FallbackTopic(goal, weeklyHours, topicsPerWeek, week, t - 1).title.str)

\* for (let week = 1; week <= totalDuration; week++): the integer weeks up
\* to totalDuration, which is totalDuration.int of them.
generateIntelligentFallback(goal, weeklyHours, totalDuration, topicsPerWeek) ==
  RoadmapObj(
    StrVal(goal), totalDuration, weeklyHours,
    ArrayOf([week \in 1..Max(0, totalDuration.int) |->
               FallbackWeek(goal, weeklyHours, topicsPerWeek, week)]))

----------------------------------------------------------------------------
\* validateRoadmap: "true", "false", or "TypeError" when it reads a property
\* of a null element of roadmap or topics.

RECURSIVE ValidateTopics(_)
ValidateTopics(ts) ==
  IF ts = <<>> THEN "true"
  ELSE LET t == Head(ts)
       IN IF ThrowsOnRead(t) THEN "TypeError"
          ELSE IF TypeOf(t.title) # "string" THEN "false"
          ELSE IF TypeOf(t.description) # "string" THEN "false"
          ELSE IF TypeOf(t.estimatedHours) # "number" THEN "false"
          ELSE IF TypeOf(t.whyImportant) # "string" THEN "false"
          ELSE IF TypeOf(t.whyThisOrder) # "string" THEN "false"
          ELSE ValidateTopics(Tail(ts))

RECURSIVE ValidateWeeks(_)
ValidateWeeks(ws) ==
  IF ws = <<>> THEN "true"
  ELSE LET w == Head(ws)
       IN IF ThrowsOnRead(w) THEN "TypeError"
          ELSE IF TypeOf(w.week) # "number" THEN "false"
          ELSE IF TypeOf(w.summary) # "string" THEN "false"
          ELSE IF ~IsArray(w.topics) THEN "false"
          ELSE LET r == ValidateTopics(w.topics.items)
               IN IF r # "true" THEN r ELSE ValidateWeeks(Tail(ws))

\* Mutant: the candidate's roadmap is not tested for being an array.
validateRoadmap_NoRoadmapCheck(obj) ==
  IF obj.ty \notin {"object", "array"} THEN "false"
  ELSE IF TypeOf(obj.goal) # "string" THEN "false"
  ELSE IF TypeOf(obj.totalWeeks) # "number" THEN "false"
  ELSE IF TypeOf(obj.weeklyHours) # "number" THEN "false"
  ELSE ValidateWeeks(obj.roadmap.items)

validateRoadmap(obj) ==
  IF obj.ty \notin {"object", "array"} THEN "false"
  ELSE IF TypeOf(obj.goal) # "string" THEN "false"
  ELSE IF TypeOf(obj.totalWeeks) # "number" THEN "false"
  ELSE IF TypeOf(obj.weeklyHours) # "number" THEN "false"
  ELSE IF ~IsArray(obj.roadmap) THEN "false"
  ELSE ValidateWeeks(obj.roadmap.items)

----------------------------------------------------------------------------
\* The text of a provider reply, and sanitizeJSONString / JSON.parse on it.
\* A text is described by what the two functions look at: whether there is
\* content at all, whether it is wrapped in a markdown fence, whether prose
\* surrounds it, and the payload: JSON text for `value` (possibly needing the
\* comma / key / quote repairs), or text that is no JSON even when repaired.

TextOf(content, fenced, prose, json, value) ==
  [content |-> content, fenced |-> fenced, prose |-> prose, json |-> json,
   value |-> value]

NoText == TextOf("missing", FALSE, FALSE, FALSE, NonObjectRoadmap("undefined"))

\* ((resp as any)?.choices?.[0]?.message?.content) || "" and the test of
\* line 113: a missing, empty or whitespace-only content.
IsEmptyResponse(text) == text.content \in {"missing", "empty", "whitespace"}

\* The fence markers go; the first-{ to last-} span is kept when the payload
\* has one (an object), which drops the prose around it; otherwise the text
\* stays as it is.
sanitizeJSONString(text) ==
  [text EXCEPT !.fenced = FALSE,
               !.prose = IF text.json /\ text.value.ty = "object"
                           THEN FALSE ELSE text.prose]

\* JSON.parse: [ok |-> FALSE] stands for the SyntaxError.
JSONparse(text) ==
  IF text.fenced \/ text.prose \/ ~text.json
    THEN [ok |-> FALSE, value |-> NonObjectRoadmap("undefined")]
    ELSE [ok |-> TRUE, value |-> text.value]

----------------------------------------------------------------------------
\* The normalize pass of generateRoadmapWithAI (lines 134-150)

\* Mutant: the summary default counts weeks from zero.
NormalizeWeek_ZeroBased(w, idx, goal) ==
  WeekObj(
    IF TypeOf(w.week) = "number" THEN w.week ELSE IntVal(idx),
    IF Truthy(w.summary) THEN w.summary
      ELSE StrVal(<<"Week", " ", ToString(idx - 1), " ", "focus for", " ">>
                    \o goal),
    IF IsArray(w.topics) THEN w.topics ELSE ArrayOf(<<>>),
    IF IsArray(w.resources) THEN w.resources ELSE ArrVal(<<>>))

NormalizeWeek(w, idx, goal) ==
  WeekObj(
    IF TypeOf(w.week) = "number" THEN w.week ELSE IntVal(idx),
    IF Truthy(w.summary) THEN w.summary
      ELSE StrVal(<<"Week", " ", ToString(idx), " ", "focus for", " ">> \o goal),
    IF IsArray(w.topics) THEN w.topics ELSE ArrayOf(<<>>),
    IF IsArray(w.resources) THEN w.resources ELSE ArrVal(<<>>))

NormalizeRoadmap(parsed, goal, weeklyHours, totalDuration) ==
  RoadmapObj(
    IF Truthy(parsed.goal) THEN parsed.goal ELSE StrVal(goal),
    IF Truthy(parsed.totalWeeks) THEN parsed.totalWeeks ELSE totalDuration,
    IF Truthy(parsed.weeklyHours) THEN parsed.weeklyHours ELSE weeklyHours,
    ArrayOf([idx \in 1..Len(parsed.roadmap.items) |->
               NormalizeWeek(parsed.roadmap.items[idx], idx, goal)]))

RECURSIVE SumTopics(_)
SumTopics(ws) ==
  IF ws = <<>> THEN 0 ELSE Len(Head(ws).topics.items) + SumTopics(Tail(ws))

\* parsed.roadmap.reduce((s, w) => s + (w.topics?.length || 0), 0)
totalTopicsInRoadmap(r) == SumTopics(r.roadmap.items)

----------------------------------------------------------------------------
\* Request bodies: what `await req.json()` is given.

GoalChars == {" ", "a"}

RECURSIVE StringsUpTo(_)
StringsUpTo(n) ==
  IF n = 0 THEN {<<>>}
  ELSE LET shorter == StringsUpTo(n - 1)
       IN shorter \cup {Append(s, c) : s \in shorter, c \in GoalChars}

BodyGoals ==
  {Undefined, IntVal(7)} \cup {StrVal(s) : s \in StringsUpTo(MaxGoalLen)}

BodyHours ==
  {Undefined, StrVal(<<"5">>)}
    \cup {NumVal(i, f) : i \in 0..MaxHours, f \in BOOLEAN}

BodyWeeks ==
  {Undefined, StrVal(<<"4">>)}
    \cup {NumVal(i, f) : i \in 0..MaxWeeks, f \in BOOLEAN}

\* kind "malformed": the body is no JSON and req.json() rejects; kind
\* "null": the body is the JSON value null, which cannot be destructured;
\* kind "value": any other JSON value, read through its three fields (a
\* field it does not have is Undefined).
BodyOf(kind, g, h, d) ==
  [kind |-> kind, goal |-> g, weeklyHours |-> h, totalDuration |-> d]

Bodies ==
  {BodyOf("malformed", Undefined, Undefined, Undefined),
   BodyOf("null", Undefined, Undefined, Undefined)}
    \cup {BodyOf("value", g, h, d) :
            g \in BodyGoals, h \in BodyHours, d \in BodyWeeks}

----------------------------------------------------------------------------
\* Provider replies: what `await cerebras.chat.completions.create(...)`
\* resolves to or throws.

ModelTopic ==
  TopicObj(StrVal(<<"m-title">>), StrVal(<<"m-description">>), IntVal(2),
           StrVal(<<"m-important">>), StrVal(<<"m-order">>),
           Undefined, Undefined, Undefined, Undefined)

ModelTopicNoHours == [ModelTopic EXCEPT !.estimatedHours = Undefined]

ModelTopicEmptyTitle == [ModelTopic EXCEPT !.title = StrVal(<<>>)]

ModelTopicWithExtras ==
  [ModelTopic EXCEPT !.commands = ArrVal(<<"m-command">>),
                     !.outcome = StrVal(<<"m-outcome">>)]

ModelWeek(n, topics) ==
  WeekObj(IntVal(n), StrVal(<<"m-summary">>), ArrayOf(topics),
          ArrVal(<<"m-resource">>))

ModelRoadmaps ==
  {<<>>,
   <<ModelWeek(1, <<ModelTopic>>)>>,
   <<ModelWeek(1, <<ModelTopic, ModelTopicWithExtras>>),
     ModelWeek(2, <<ModelTopic>>)>>,
   <<ModelWeek(1, <<>>)>>,
   <<ModelWeek(1, <<>>), ModelWeek(2, <<>>)>>,
   <<ModelWeek(1, <<>>), ModelWeek(2, <<ModelTopic>>)>>,
   <<ModelWeek(7, <<ModelTopic>>)>>,
   <<ModelWeek(2, <<ModelTopic>>), ModelWeek(1, <<ModelTopic>>)>>,
   <<[ModelWeek(1, <<ModelTopic>>) EXCEPT !.summary = StrVal(<<>>)]>>,
   <<[ModelWeek(1, <<ModelTopic>>) EXCEPT !.summary = Undefined]>>,
   <<[ModelWeek(1, <<ModelTopic>>) EXCEPT !.week = StrVal(<<"1">>)]>>,
   <<[ModelWeek(1, <<ModelTopic>>) EXCEPT !.resources = StrVal(<<"m-resource">>)]>>,
   <<[ModelWeek(1, <<ModelTopic>>) EXCEPT !.resources = Undefined]>>,
   <<[ModelWeek(1, <<>>) EXCEPT !.topics = NotArray("undefined")]>>,
   <<ModelWeek(1, <<ModelTopic, ModelTopicNoHours>>)>>,
   <<ModelWeek(1, <<ModelTopicEmptyTitle>>)>>,
   <<ModelWeek(1, <<NonObjectTopic("null")>>)>>,
   <<ModelWeek(1, <<NonObjectTopic("number")>>)>>,
   <<NonObjectWeek("null")>>,
   <<ModelWeek(1, <<ModelTopic>>), NonObjectWeek("null")>>,
   <<NonObjectWeek("string")>>}

ModelGood ==
  RoadmapObj(StrVal(<<"m-goal">>), IntVal(2), IntVal(3),
             ArrayOf(<<ModelWeek(1, <<ModelTopic>>),
                       ModelWeek(2, <<ModelTopic>>)>>))

\* The JSON values a reply may carry once repaired and parsed.
ModelValues ==
  {[ModelGood EXCEPT !.roadmap = ArrayOf(r)] : r \in ModelRoadmaps}
    \cup {[ModelGood EXCEPT !.goal = StrVal(<<>>)],
          [ModelGood EXCEPT !.goal = Undefined],
          [ModelGood EXCEPT !.totalWeeks = IntVal(0)],
          [ModelGood EXCEPT !.totalWeeks = IntVal(5)],
          [ModelGood EXCEPT !.totalWeeks = IntVal(1)],
          [ModelGood EXCEPT !.totalWeeks = StrVal(<<"2">>)],
          [ModelGood EXCEPT !.weeklyHours = IntVal(0)],
          [ModelGood EXCEPT !.weeklyHours = Undefined],
          [ModelGood EXCEPT !.goal = StrVal(<<>>),
                            !.totalWeeks = IntVal(0),
                            !.weeklyHours = IntVal(0),
                            !.roadmap = ArrayOf(<<
                              ModelWeek(1, <<ModelTopic>>),
                              [ModelWeek(2, <<ModelTopic>>)
                                 EXCEPT !.summary = StrVal(<<>>),
                                        !.resources = Null]>>)],
          [ModelGood EXCEPT !.roadmap = NotArray("undefined")],
          [ModelGood EXCEPT !.roadmap = NotArray("object")],
          NonObjectRoadmap("null"),
          NonObjectRoadmap("number"),
          NonObjectRoadmap("array")}

ModelTexts ==
  {TextOf("text", FALSE, FALSE, TRUE, v) : v \in ModelValues}
    \cup {TextOf("text", fenced, prose, TRUE, v) :
            fenced \in BOOLEAN, prose \in BOOLEAN,
            v \in {ModelGood, NonObjectRoadmap("null")}}
    \cup {TextOf("text", FALSE, FALSE, FALSE, NonObjectRoadmap("undefined")),
          TextOf("missing", FALSE, FALSE, FALSE, NonObjectRoadmap("undefined")),
          TextOf("empty", FALSE, FALSE, FALSE, NonObjectRoadmap("undefined")),
          TextOf("whitespace", FALSE, FALSE, FALSE, NonObjectRoadmap("undefined"))}

\* kind "APIError": the SDK's error class, thrown for a non-2xx status
\* (status 0 stands for an error with no status: connection, timeout);
\* kind "Error": anything else thrown inside the try block.
ReplyOf(kind, status, message, text) ==
  [kind |-> kind, status |-> status, message |-> message, text |-> text]

NoReply == ReplyOf("none", 0, <<>>, NoText)

ProviderMessages ==
  {<<"provider: rate limit exceeded">>, <<"provider: model is loading">>,
   <<"provider: request timed out">>}

ProviderReplies ==
  {ReplyOf("ok", 200, <<>>, t) : t \in ModelTexts}
    \cup {ReplyOf("APIError", 429, <<"provider: rate limit exceeded">>, NoText),
          ReplyOf("APIError", 503, <<"provider: model is loading">>, NoText),
          ReplyOf("APIError", 0, <<"provider: request timed out">>, NoText),
          ReplyOf("Error", 0, <<"unexpected failure">>, NoText)}

----------------------------------------------------------------------------
\* The handler of one request

VARIABLES
  pc,                 \* where the handler is
  body,               \* the request body
  envKey,             \* process.env.CEREBRAS_API_KEY is set
  nodeEnv,            \* process.env.NODE_ENV
  goal,               \* generateRoadmapWithAI's arguments
  weeklyHours,
  totalDuration,
  topicsPerWeekCalc,  \* its locals
  totalTopics,
  reply,              \* what the awaited provider call resolved to or threw
  raw,
  cleaned,
  parsed,
  response,           \* what POST answered
  calls,              \* provider calls made for this request
  fallbacks,          \* calls of generateIntelligentFallback for this request
  unit,               \* a function called on its own: its arguments and result
  handlers            \* requests handled at the same time: each one's bindings

vars ==
  <<pc, body, envKey, nodeEnv, goal, weeklyHours, totalDuration,
    topicsPerWeekCalc, totalTopics, reply, raw, cleaned, parsed, response,
    calls, fallbacks, unit, handlers>>

NoRoadmap == NonObjectRoadmap("undefined")

NoResponse ==
  [status |-> 0, error |-> <<>>, details |-> FALSE, roadmap |-> NoRoadmap]

\* NextResponse.json(roadmap)
RoadmapResponse(r) ==
  [status |-> 200, error |-> <<>>, details |-> FALSE, roadmap |-> r]

\* NextResponse.json({ error }, { status })
ErrorResponse(status, error) ==
  [status |-> status, error |-> error, details |-> FALSE, roadmap |-> NoRoadmap]

\* The outer catch of POST (lines 236-245).
UncaughtResponse(message) ==
  [status |-> 500, error |-> message, details |-> nodeEnv = "development",
   roadmap |-> NoRoadmap]

\* The inner catch of POST (lines 229-235).
GenerationErrorResponse(message) ==
  ErrorResponse(502,
    IF message # <<>> THEN message ELSE <<"Failed to generate roadmap with AI">>)

\* No function is called on its own while a request is handled.
NoUnit == [fn |-> "none", done |-> FALSE]

Init ==
  /\ pc = "POST"
  /\ body \in Bodies
  /\ envKey \in BOOLEAN
  /\ nodeEnv \in {"development", "production"}
  /\ goal = <<>>
  /\ weeklyHours = Undefined
  /\ totalDuration = Undefined
  /\ topicsPerWeekCalc = 0
  /\ totalTopics = Undefined
  /\ reply = NoReply
  /\ raw = NoText
  /\ cleaned = NoText
  /\ parsed = NoRoadmap
  /\ response = NoResponse
  /\ calls = 0
  /\ fallbacks = 0
  /\ unit = NoUnit
  /\ handlers = <<>>

\* The three input checks of POST, in the order of the code.
GoalInvalid(b) ==
  ~Truthy(b.goal) \/ TypeOf(b.goal) # "string" \/ Trim(b.goal.str) = <<>>

HoursInvalid(b) ==
  \/ ~Truthy(b.weeklyHours)
  \/ TypeOf(b.weeklyHours) # "number"
  \/ LessThanOne(b.weeklyHours)

\* Mutant: the duration check without its minimum.
DurationInvalid_NoMinimum(b) ==
  ~Truthy(b.totalDuration) \/ TypeOf(b.totalDuration) # "number"

DurationInvalid(b) ==
  \/ ~Truthy(b.totalDuration)
  \/ TypeOf(b.totalDuration) # "number"
  \/ LessThanOne(b.totalDuration)

\* Mutant: the duration check made before the weekly-hours check.
InputCheck_DurationFirst(b) ==
  IF GoalInvalid(b)
    THEN ErrorResponse(400, <<"Learning goal is required">>)
  ELSE IF DurationInvalid(b)
    THEN ErrorResponse(400, <<"Valid duration in weeks is required (minimum 1)">>)
  ELSE IF HoursInvalid(b)
    THEN ErrorResponse(400, <<"Valid weekly hours is required (minimum 1)">>)
  ELSE NoResponse

\* NoResponse when the body passes, else the 400 response of the first
\* failing check.
InputCheck(b) ==
  IF GoalInvalid(b)
    THEN ErrorResponse(400, <<"Learning goal is required">>)
  ELSE IF HoursInvalid(b)
    THEN ErrorResponse(400, <<"Valid weekly hours is required (minimum 1)">>)
  ELSE IF DurationInvalid(b)
    THEN ErrorResponse(400, <<"Valid duration in weeks is required (minimum 1)">>)
  ELSE NoResponse

\* POST up to the call of generateRoadmapWithAI (lines 209-227).
POST ==
  /\ pc = "POST"
  /\ IF body.kind = "malformed"
       THEN /\ pc' = "ERROR_500"
            /\ response' = UncaughtResponse(<<"Unexpected token in JSON">>)
            /\ UNCHANGED <<goal, weeklyHours, totalDuration>>
     ELSE IF body.kind = "null"
       THEN /\ pc' = "ERROR_500"
            /\ response' =
                 UncaughtResponse(<<"Cannot destructure property 'goal' of null">>)
            /\ UNCHANGED <<goal, weeklyHours, totalDuration>>
     ELSE IF InputCheck(body) # NoResponse
       THEN /\ pc' = "ERROR_400"
            /\ response' = InputCheck(body)
            /\ UNCHANGED <<goal, weeklyHours, totalDuration>>
     ELSE /\ pc' = "ENSURE_KEY"
          /\ goal' = Trim(body.goal.str)
          /\ weeklyHours' = body.weeklyHours
          /\ totalDuration' = body.totalDuration
          /\ UNCHANGED response
  /\ UNCHANGED <<handlers, unit, reply, body, envKey, nodeEnv, topicsPerWeekCalc, totalTopics, raw,
                 cleaned, parsed, calls, fallbacks>>

\* ensureEnvKey, called before the try block: its error reaches POST's inner
\* catch.
ensureEnvKey ==
  /\ pc = "ENSURE_KEY"
  /\ IF envKey
       THEN pc' = "BUILD_PROMPT" /\ UNCHANGED response
       ELSE /\ pc' = "ERROR_502"
            /\ response' = GenerationErrorResponse(
                 <<"CEREBRAS_API_KEY is not configured. Please set CEREBRAS_API_KEY in your environment (e.g., .env.local)">>)
  /\ UNCHANGED <<handlers, unit, reply, body, envKey, nodeEnv, goal, weeklyHours, totalDuration,
                 topicsPerWeekCalc, totalTopics, raw, cleaned, parsed, calls,
                 fallbacks>>

\* v * k for a number v and an integer k.
Times(v, k) ==
  NumVal(v.int * k + (IF v.frac THEN k \div 2 ELSE 0), v.frac /\ k % 2 = 1)

\* Mutant: the topic count without its minimum of one.
TopicsPerWeek_NoMinimum(hours) == FloorDiv(hours, 2)

\* Mutant: one topic for every four hours.
TopicsPerWeek_FourHours(hours) == Max(1, FloorDiv(hours, 4))

TopicsPerWeek(hours) == Max(1, FloorDiv(hours, 2))

\* Lines 89-96: the topic plan the two messages are built from.
BuildPrompt ==
  /\ pc = "BUILD_PROMPT"
  /\ topicsPerWeekCalc' = TopicsPerWeek(weeklyHours)
  /\ totalTopics' = Times(totalDuration, TopicsPerWeek(weeklyHours))
  /\ pc' = "CALL_MODEL"
  /\ UNCHANGED <<handlers, unit, reply, body, envKey, nodeEnv, goal, weeklyHours, totalDuration, raw,
                 cleaned, parsed, response, calls, fallbacks>>

\* cerebras.chat.completions.create(...) is called and awaited.
CallModel ==
  /\ pc = "CALL_MODEL"
  /\ calls' = calls + 1
  /\ pc' = "AWAIT_MODEL"
  /\ UNCHANGED <<handlers, unit, reply, body, envKey, nodeEnv, goal, weeklyHours, totalDuration,
                 topicsPerWeekCalc, totalTopics, raw, cleaned, parsed, response,
                 fallbacks>>

\* The catch block of generateRoadmapWithAI (lines 153-164) for an error
\* thrown by the call: an APIError is thrown again, with the provider's
\* status and message, and reaches POST's inner catch; any other error goes
\* on to the fallback.
CatchOfCall(err) ==
  IF err.kind = "APIError"
    THEN [pc |-> "ERROR_502",
          response |-> GenerationErrorResponse(
            <<"Cerebras API error (",
              ToString(IF err.status # 0 THEN err.status ELSE 500),
              "): ">> \o err.message)]
    ELSE [pc |-> "FALLBACK", response |-> NoResponse]

\* The await resumes: the call threw, or resolved with a text (lines 112-115).
ProviderReply ==
  /\ pc = "AWAIT_MODEL"
  /\ \E r \in ProviderReplies :
       /\ reply' = r
       /\ IF r.kind # "ok"
            THEN /\ pc' = CatchOfCall(r).pc
                 /\ response' = CatchOfCall(r).response
                 /\ UNCHANGED raw
          ELSE IF IsEmptyResponse(r.text)
            THEN /\ pc' = "FALLBACK"
                 /\ raw' = r.text
                 /\ UNCHANGED response
          ELSE /\ pc' = "SANITIZE"
               /\ raw' = r.text
               /\ UNCHANGED response
  /\ UNCHANGED <<handlers, unit, body, envKey, nodeEnv, goal, weeklyHours, totalDuration,
                 topicsPerWeekCalc, totalTopics, cleaned, parsed, calls,
                 fallbacks>>

\* Line 117.
Sanitize ==
  /\ pc = "SANITIZE"
  /\ cleaned' = sanitizeJSONString(raw)
  /\ pc' = "PARSE"
  /\ UNCHANGED <<handlers, unit, reply, body, envKey, nodeEnv, goal, weeklyHours, totalDuration,
                 topicsPerWeekCalc, totalTopics, raw, parsed, response, calls,
                 fallbacks>>

\* Lines 119-126.
Parse ==
  /\ pc = "PARSE"
  /\ IF JSONparse(cleaned).ok
       THEN parsed' = JSONparse(cleaned).value /\ pc' = "VALIDATE"
       ELSE pc' = "FALLBACK" /\ UNCHANGED parsed
  /\ UNCHANGED <<handlers, unit, reply, body, envKey, nodeEnv, goal, weeklyHours, totalDuration,
                 topicsPerWeekCalc, totalTopics, raw, cleaned, response, calls,
                 fallbacks>>

\* Mutant: the result of validateRoadmap is not looked at.
Validate_Unchecked ==
  /\ pc = "VALIDATE"
  /\ pc' = "NORMALIZE"
  /\ UNCHANGED <<handlers, unit, reply, body, envKey, nodeEnv, goal, weeklyHours, totalDuration,
                 topicsPerWeekCalc, totalTopics, raw, cleaned, parsed, response,
                 calls, fallbacks>>

\* Lines 128-132; a TypeError of validateRoadmap is caught like its false.
Validate ==
  /\ pc = "VALIDATE"
  /\ pc' = IF validateRoadmap(parsed) = "true" THEN "NORMALIZE" ELSE "FALLBACK"
  /\ UNCHANGED <<handlers, unit, reply, body, envKey, nodeEnv, goal, weeklyHours, totalDuration,
                 topicsPerWeekCalc, totalTopics, raw, cleaned, parsed, response,
                 calls, fallbacks>>

\* Mutant: the normalized roadmap is returned without counting its topics.
Normalize_NoTopicCount ==
  /\ pc = "NORMALIZE"
  /\ parsed' = NormalizeRoadmap(parsed, goal, weeklyHours, totalDuration)
  /\ pc' = "SUCCESS"
  /\ response' = RoadmapResponse(parsed')
  /\ UNCHANGED <<handlers, unit, reply, body, envKey, nodeEnv, goal, weeklyHours, totalDuration,
                 topicsPerWeekCalc, totalTopics, raw, cleaned, calls, fallbacks>>

\* Lines 134-152, and POST's answer for the roadmap returned (line 228).
Normalize ==
  /\ pc = "NORMALIZE"
  /\ parsed' = NormalizeRoadmap(parsed, goal, weeklyHours, totalDuration)
  /\ IF totalTopicsInRoadmap(parsed') = 0
       THEN pc' = "FALLBACK" /\ UNCHANGED response
       ELSE pc' = "SUCCESS" /\ response' = RoadmapResponse(parsed')
  /\ UNCHANGED <<handlers, unit, reply, body, envKey, nodeEnv, goal, weeklyHours, totalDuration,
                 topicsPerWeekCalc, totalTopics, raw, cleaned, calls, fallbacks>>

\* Mutant: the catch block calls the provider once more before it falls back.
Fallback_Retry ==
  /\ pc = "FALLBACK"
  /\ IF calls < 2
       THEN pc' = "CALL_MODEL" /\ UNCHANGED <<fallbacks, response>>
       ELSE /\ fallbacks' = fallbacks + 1
            /\ response' = RoadmapResponse(
                 generateIntelligentFallback(goal, weeklyHours, totalDuration,
                                             topicsPerWeekCalc))
            /\ pc' = "SUCCESS"
  /\ UNCHANGED <<handlers, unit, reply, body, envKey, nodeEnv, goal, weeklyHours, totalDuration,
                 topicsPerWeekCalc, totalTopics, raw, cleaned, parsed, calls>>

\* Line 163, and POST's answer for the roadmap returned (line 228).
Fallback ==
  /\ pc = "FALLBACK"
  /\ fallbacks' = fallbacks + 1
  /\ response' = RoadmapResponse(
       generateIntelligentFallback(goal, weeklyHours, totalDuration,
                                   topicsPerWeekCalc))
  /\ pc' = "SUCCESS"
  /\ UNCHANGED <<handlers, unit, reply, body, envKey, nodeEnv, goal, weeklyHours, totalDuration,
                 topicsPerWeekCalc, totalTopics, raw, cleaned, parsed, calls>>

Next ==
  \/ POST
  \/ ensureEnvKey
  \/ BuildPrompt
  \/ CallModel
  \/ ProviderReply
  \/ Sanitize
  \/ Parse
  \/ Validate
  \/ Normalize
  \/ Fallback

Spec == Init /\ [][Next]_vars

----------------------------------------------------------------------------
\* Properties

Done == pc \in {"SUCCESS", "ERROR_400", "ERROR_500", "ERROR_502"}

\* The request body read as the claims read it: a goal that is a string and
\* not blank, a number of weekly hours >= 1, a number of weeks >= 1.
GoalGiven == body.goal.ty = "string" /\ Trim(body.goal.str) # <<>>

HoursGiven == body.weeklyHours.ty = "number" /\ body.weeklyHours.int >= 1

DurationGiven == body.totalDuration.ty = "number" /\ body.totalDuration.int >= 1

ValidRequest == body.kind = "value" /\ GoalGiven /\ HoursGiven /\ DurationGiven

\* The fallback roadmap of the request, from the request's own values.
ExpectedTopicsPerWeek ==
  IF body.weeklyHours.int \div 2 >= 1 THEN body.weeklyHours.int \div 2 ELSE 1

ExpectedFallback ==
  generateIntelligentFallback(Trim(body.goal.str), body.weeklyHours,
                              body.totalDuration, ExpectedTopicsPerWeek)

CallFailed == reply.kind \in {"APIError", "Error"}

\* C1: for a valid request with the key set, a failed provider call (an error
\* thrown by the call: non-2xx status, rate limit, timeout, network) ends in a
\* 200 response carrying the fallback roadmap, never in a 502 or 500.
C1_FailedCallFallsBack ==
  (Done /\ ValidRequest /\ envKey /\ CallFailed)
    => response = RoadmapResponse(ExpectedFallback)

\* C2: for a valid request with the API key absent, the answer is 200 with the
\* fallback roadmap and no provider call is made.
C2_MissingKeyFallsBack ==
  (Done /\ ValidRequest /\ ~envKey)
    => response = RoadmapResponse(ExpectedFallback) /\ calls = 0

\* C3: whatever the provider did for a request, the caller sees a 200 roadmap
\* or a 400 validation message, and the response carries no message that
\* came from the provider.
C3_NoProviderMessage ==
  (Done /\ reply.kind # "none") =>
    /\ response.status \in {200, 400}
    /\ \A m \in ProviderMessages :
         \A i \in 1..Len(response.error) : response.error[i] # m[1]

\* C4 as stated: POST answers 400 with an error message whenever the goal is
\* missing, not a string or blank, or weeklyHours or totalDuration is not a
\* number >= 1, and then neither the provider nor the fallback generator is
\* invoked.
C4_Original ==
  (~GoalGiven \/ ~HoursGiven \/ ~DurationGiven)
    => /\ calls = 0
       /\ fallbacks = 0
       /\ Done => (response.status = 400 /\ response.error # <<>>
                     /\ response.roadmap = NoRoadmap)

\* C4, amended: the same for every body that is JSON and not null (a body
\* that is no JSON, or is null, has no goal either and is answered 500).
C4_InvalidInputIs400 ==
  (body.kind = "value" /\ (~GoalGiven \/ ~HoursGiven \/ ~DurationGiven))
    => /\ calls = 0
       /\ fallbacks = 0
       /\ Done => (response.status = 400 /\ response.error # <<>>
                     /\ response.roadmap = NoRoadmap)

\* A request with a good goal and weekly hours but half a week of duration
\* was answered 400.
C4_Witness ==
  /\ pc = "ERROR_400"
  /\ GoalGiven /\ HoursGiven
  /\ body.totalDuration = NumVal(0, TRUE)
  /\ response.status = 400

\* C5: the checks run in the order goal, weeklyHours, totalDuration: a request
\* with a non-blank goal whose weeklyHours is not a number >= 1 gets exactly
\* {error: "Valid weekly hours is required (minimum 1)"} with status 400,
\* whatever totalDuration is.
C5_HoursMessageFirst ==
  (Done /\ GoalGiven /\ ~HoursGiven)
    => response =
         ErrorResponse(400, <<"Valid weekly hours is required (minimum 1)">>)

\* weeklyHours = 0 with a totalDuration that is invalid too.
C5_Witness ==
  /\ Done
  /\ GoalGiven
  /\ body.weeklyHours = IntVal(0)
  /\ ~DurationGiven
  /\ response.error = <<"Valid weekly hours is required (minimum 1)">>

\* The provider call resolved with no text, or with whitespace only.
RepliedEmpty == reply.kind = "ok" /\ reply.text.content # "text"

\* The provider call resolved with text.
RepliedText == reply.kind = "ok" /\ reply.text.content = "text"

WeeksOf(r) == r.roadmap.items

\* C6 as stated: a valid request whose provider call returns empty or
\* whitespace-only text is answered 200 with the fallback roadmap:
\* totalWeeks = totalDuration, weeklyHours as requested, exactly totalDuration
\* weeks, each with max(1, floor(weeklyHours / 2)) topics.
C6_Original ==
  (Done /\ ValidRequest /\ RepliedEmpty)
    => /\ response.status = 200
       /\ response.roadmap.totalWeeks = body.totalDuration
       /\ response.roadmap.weeklyHours = body.weeklyHours
       /\ IntVal(Len(WeeksOf(response.roadmap))) = body.totalDuration
       /\ \A i \in 1..Len(WeeksOf(response.roadmap)) :
            Len(WeeksOf(response.roadmap)[i].topics.items)
              = ExpectedTopicsPerWeek

\* C6, amended: the same with exactly floor(totalDuration) weeks, which is
\* totalDuration weeks when totalDuration is an integer.
C6_EmptyTextFallback ==
  (Done /\ ValidRequest /\ RepliedEmpty)
    => /\ response.status = 200
       /\ response.roadmap.totalWeeks = body.totalDuration
       /\ response.roadmap.weeklyHours = body.weeklyHours
       /\ Len(WeeksOf(response.roadmap)) = body.totalDuration.int
       /\ (~body.totalDuration.frac
             => IntVal(Len(WeeksOf(response.roadmap))) = body.totalDuration)
       /\ \A i \in 1..Len(WeeksOf(response.roadmap)) :
            Len(WeeksOf(response.roadmap)[i].topics.items)
              = ExpectedTopicsPerWeek

\* weeklyHours = 4 and totalDuration = 3 against an empty text: three weeks
\* of two topics.
C6_Witness ==
  /\ pc = "SUCCESS"
  /\ RepliedEmpty
  /\ body.weeklyHours = IntVal(4)
  /\ body.totalDuration = IntVal(3)
  /\ Len(WeeksOf(response.roadmap)) = 3
  /\ Len(WeeksOf(response.roadmap)[3].topics.items) = 2

ParseFails == ~JSONparse(sanitizeJSONString(reply.text)).ok

ValidateFails ==
  /\ ~ParseFails
  /\ validateRoadmap(JSONparse(sanitizeJSONString(reply.text)).value) # "true"

\* C7: for a valid request whose provider call returns non-empty text, a
\* parse failure or a validation failure ends in the fallback: the 200
\* response is exactly generateIntelligentFallback(trimmed goal, weeklyHours,
\* totalDuration, max(1, floor(weeklyHours / 2))), made once, with nothing of
\* the model output in it.
C7_ParseOrValidateFailureFallsBack ==
  (Done /\ ValidRequest /\ RepliedText /\ (ParseFails \/ ValidateFails))
    => /\ response = RoadmapResponse(ExpectedFallback)
       /\ fallbacks = 1
       /\ response.roadmap.goal = StrVal(Trim(body.goal.str))

\* A text whose JSON has a topic with no estimatedHours, for a goal that
\* trimming changes, answered with the fallback.
C7_Witness ==
  /\ pc = "SUCCESS"
  /\ RepliedText
  /\ ValidateFails
  /\ reply.text.value.roadmap.items
       = <<ModelWeek(1, <<ModelTopic, ModelTopicNoHours>>)>>
  /\ body.goal.str # Trim(body.goal.str)
  /\ response = RoadmapResponse(ExpectedFallback)

\* The model output passes validateRoadmap and has no topic in any week.
ValidWithNoTopics ==
  /\ RepliedText
  /\ ~ParseFails
  /\ ~ValidateFails
  /\ \A i \in 1..Len(WeeksOf(reply.text.value)) :
       WeeksOf(reply.text.value)[i].topics.items = <<>>

\* C8: model output that parses and validates but has no topic at all (an
\* empty roadmap array included) ends in the fallback roadmap; no 200 response
\* built from model output has zero topics.
C8_ZeroTopicsFallsBack ==
  /\ (Done /\ ValidRequest /\ ValidWithNoTopics)
       => response = RoadmapResponse(ExpectedFallback) /\ fallbacks = 1
  /\ (pc = "SUCCESS" /\ fallbacks = 0)
       => \E i \in 1..Len(WeeksOf(response.roadmap)) :
            WeeksOf(response.roadmap)[i].topics.items # <<>>

\* Two weeks, both without topics, answered with the fallback.
C8_Witness ==
  /\ pc = "SUCCESS"
  /\ ValidWithNoTopics
  /\ Len(WeeksOf(reply.text.value)) = 2
  /\ response = RoadmapResponse(ExpectedFallback)

\* The stage of the pipeline the handler is in.
Stage(p) == IF p = "AWAIT_MODEL" THEN "CALL_MODEL" ELSE p

PipelineEdges ==
  {<<"BUILD_PROMPT", "CALL_MODEL">>, <<"CALL_MODEL", "SANITIZE">>,
   <<"SANITIZE", "PARSE">>, <<"PARSE", "VALIDATE">>,
   <<"VALIDATE", "NORMALIZE">>, <<"NORMALIZE", "SUCCESS">>,
   <<"CALL_MODEL", "FALLBACK">>, <<"PARSE", "FALLBACK">>,
   <<"VALIDATE", "FALLBACK">>, <<"NORMALIZE", "FALLBACK">>,
   <<"FALLBACK", "SUCCESS">>}

\* C9: a valid request enters the pipeline at BUILD_PROMPT and moves only
\* along BUILD_PROMPT, CALL_MODEL, SANITIZE, PARSE, VALIDATE, NORMALIZE,
\* SUCCESS, or from CALL_MODEL, PARSE, VALIDATE or NORMALIZE to FALLBACK and
\* from there to SUCCESS: it ends in SUCCESS and in no other terminal state.
C9_StageOrder ==
  [][ValidRequest =>
       \/ Stage(pc') = Stage(pc)
       \/ pc \in {"POST", "ENSURE_KEY"}
            /\ pc' \in {"ENSURE_KEY", "BUILD_PROMPT"}
       \/ <<Stage(pc), Stage(pc')>> \in PipelineEdges]_vars

\* C10: a request makes at most one provider call, whatever fails after it,
\* and a request answered 400 makes none.
C10_AtMostOneCall ==
  /\ calls <= 1
  /\ pc = "ERROR_400" => calls = 0

\* The call was made, the text did not parse, the fallback answered.
C10_Witness ==
  /\ pc = "SUCCESS"
  /\ RepliedText
  /\ ParseFails
  /\ fallbacks = 1
  /\ calls = 1

\* C11: in every roadmap answered with 200, from model output or from the
\* fallback generator, the week fields are 1, 2, ..., n in order; a week
\* number of the model that differs from the entry's position is replaced by
\* the position.
C11_WeeksNumberedFromOne ==
  pc = "SUCCESS"
    => \A i \in 1..Len(WeeksOf(response.roadmap)) :
         WeeksOf(response.roadmap)[i].week = IntVal(i)

\* C12: the roadmap answered with 200 has as many weeks as its own totalWeeks
\* field says, or fewer, never more.
C12_LengthWithinTotalWeeks ==
  pc = "SUCCESS"
    => /\ response.roadmap.totalWeeks.ty = "number"
       /\ Len(WeeksOf(response.roadmap)) <= response.roadmap.totalWeeks.int

\* C13: in every roadmap answered with 200, every topic has title,
\* description, whyImportant and whyThisOrder as non-empty strings and
\* estimatedHours as a number: an empty required string of the model output
\* is never passed on.
C13_TopicFieldsNonEmpty ==
  pc = "SUCCESS"
    => \A i \in 1..Len(WeeksOf(response.roadmap)) :
         \A j \in 1..Len(WeeksOf(response.roadmap)[i].topics.items) :
           LET t == WeeksOf(response.roadmap)[i].topics.items[j]
           IN /\ t.title.ty = "string" /\ t.title.str # <<>>
              /\ t.description.ty = "string" /\ t.description.str # <<>>
              /\ t.whyImportant.ty = "string" /\ t.whyImportant.str # <<>>
              /\ t.whyThisOrder.ty = "string" /\ t.whyThisOrder.str # <<>>
              /\ t.estimatedHours.ty = "number"

----------------------------------------------------------------------------
\* generateIntelligentFallback called on its own

MaxTopicsPerWeek == 3

\* No request is being handled.
PipelineIdle ==
  /\ pc = "UNIT"
  /\ body = BodyOf("malformed", Undefined, Undefined, Undefined)
  /\ envKey = FALSE
  /\ nodeEnv = "production"
  /\ goal = <<>>
  /\ weeklyHours = Undefined
  /\ totalDuration = Undefined
  /\ topicsPerWeekCalc = 0
  /\ totalTopics = Undefined
  /\ reply = NoReply
  /\ raw = NoText
  /\ cleaned = NoText
  /\ parsed = NoRoadmap
  /\ response = NoResponse
  /\ calls = 0
  /\ fallbacks = 0
  /\ handlers = <<>>

pipelineVars ==
  <<pc, body, envKey, nodeEnv, goal, weeklyHours, totalDuration,
    topicsPerWeekCalc, totalTopics, reply, raw, cleaned, parsed, response,
    calls, fallbacks, handlers>>

\* Goal texts as generateRoadmapWithAI passes them on: trimmed, not blank.
FallbackGoalChars == {"a", ":"}

RECURSIVE FallbackGoalsUpTo(_)
FallbackGoalsUpTo(n) ==
  IF n = 0 THEN {<<>>}
  ELSE LET shorter == FallbackGoalsUpTo(n - 1)
       IN shorter \cup {Append(g, c) : g \in shorter, c \in FallbackGoalChars}

FallbackGoals == FallbackGoalsUpTo(MaxGoalLen) \ {<<>>}

FallbackArgs ==
  [goal : FallbackGoals,
   weeklyHours : {NumVal(i, f) : i \in 1..MaxHours, f \in BOOLEAN},
   totalDuration : {NumVal(i, f) : i \in 1..MaxWeeks, f \in BOOLEAN},
   topicsPerWeek : 1..MaxTopicsPerWeek]

InitFallback ==
  /\ PipelineIdle
  /\ \E a \in FallbackArgs :
       unit = [fn |-> "generateIntelligentFallback", done |-> FALSE,
               args |-> a, threw |-> FALSE, out |-> NoRoadmap]

CallFallback ==
  /\ unit.fn = "generateIntelligentFallback"
  /\ ~unit.done
  /\ LET a == unit.args
     IN IF FallbackThrows(a.goal, a.weeklyHours, a.totalDuration, a.topicsPerWeek)
          THEN unit' = [unit EXCEPT !.done = TRUE, !.threw = TRUE]
          ELSE unit' = [unit EXCEPT !.done = TRUE,
                          !.out = generateIntelligentFallback(
                                    a.goal, a.weeklyHours, a.totalDuration,
                                    a.topicsPerWeek)]
  /\ UNCHANGED pipelineVars

NextFallback == CallFallback

SpecFallback == InitFallback /\ [][NextFallback]_vars

FallbackReturned ==
  unit.fn = "generateIntelligentFallback" /\ unit.done /\ ~unit.threw

\* What the claim expects of estimatedHours, from the arguments.
ExpectedHours(a) ==
  IF a.weeklyHours.int \div a.topicsPerWeek >= 1
    THEN a.weeklyHours.int \div a.topicsPerWeek ELSE 1

FallbackShape(a, r) ==
  /\ \A i \in 1..Len(WeeksOf(r)) :
       /\ Len(WeeksOf(r)[i].topics.items) = a.topicsPerWeek
       /\ \A j \in 1..Len(WeeksOf(r)[i].topics.items) :
            WeeksOf(r)[i].topics.items[j].estimatedHours
              = IntVal(ExpectedHours(a))
  /\ r.goal = StrVal(a.goal)
  /\ r.totalWeeks = a.totalDuration
  /\ r.weeklyHours = a.weeklyHours

\* C14 as stated: for all weeklyHours >= 1, totalDuration >= 1 and
\* topicsPerWeek >= 1 the fallback roadmap has exactly totalDuration weeks,
\* each with exactly topicsPerWeek topics, each topic with estimatedHours
\* = max(1, floor(weeklyHours / topicsPerWeek)), and goal, totalWeeks and
\* weeklyHours equal to the arguments.
C14_Original ==
  (unit.fn = "generateIntelligentFallback" /\ unit.done)
    => /\ ~unit.threw
       /\ IntVal(Len(WeeksOf(unit.out))) = unit.args.totalDuration
       /\ FallbackShape(unit.args, unit.out)

\* C14, amended: the same with exactly floor(totalDuration) weeks, which is
\* totalDuration weeks when totalDuration is an integer.
C14_FallbackShape ==
  (unit.fn = "generateIntelligentFallback" /\ unit.done)
    => /\ ~unit.threw
       /\ Len(WeeksOf(unit.out)) = unit.args.totalDuration.int
       /\ (~unit.args.totalDuration.frac
             => IntVal(Len(WeeksOf(unit.out))) = unit.args.totalDuration)
       /\ FallbackShape(unit.args, unit.out)

\* weeklyHours = 5, totalDuration = 2, topicsPerWeek = 2: two weeks of two
\* topics of two hours each.
C14_Witness ==
  /\ FallbackReturned
  /\ unit.args.weeklyHours = IntVal(5)
  /\ unit.args.totalDuration = IntVal(2)
  /\ unit.args.topicsPerWeek = 2
  /\ Len(WeeksOf(unit.out)) = 2
  /\ Len(WeeksOf(unit.out)[2].topics.items) = 2
  /\ WeeksOf(unit.out)[2].topics.items[2].estimatedHours = IntVal(2)

\* C15: the fallback generator does not throw, whatever the goal text and
\* the numbers >= 1 it is given, and validateRoadmap accepts what it returns.
C15_FallbackValid ==
  (unit.fn = "generateIntelligentFallback" /\ unit.done)
    => ~unit.threw /\ validateRoadmap(unit.out) = "true"

\* A goal with a colon in it, three topics a week.
C15_Witness ==
  /\ FallbackReturned
  /\ HasColon(unit.args.goal)
  /\ unit.args.topicsPerWeek = 3
  /\ validateRoadmap(unit.out) = "true"

----------------------------------------------------------------------------
\* validateRoadmap called on its own, on the JSON values of ModelValues with
\* the fields it never reads (commands, files, tools, outcome of a topic,
\* resources of a week) set in several ways.

\* One setting of the unread fields.
ExtrasOf(commands, files, tools, outcome, resources) ==
  [commands |-> commands, files |-> files, tools |-> tools,
   outcome |-> outcome, resources |-> resources]

ExtrasSamples ==
  {ExtrasOf(Undefined, Undefined, Undefined, Undefined, Undefined),
   ExtrasOf(ArrVal(<<"m-command">>), ArrVal(<<"m-file">>),
            ArrVal(<<"m-tool">>), StrVal(<<"m-outcome">>),
            ArrVal(<<"m-resource">>)),
   ExtrasOf(StrVal(<<"m-command">>), IntVal(1), Null, ArrVal(<<>>),
            StrVal(<<"m-resource">>)),
   ExtrasOf(Null, Null, Null, IntVal(0), IntVal(3))}

TopicWithExtras(t, e) ==
  IF t.ty # "object" THEN t
  ELSE [t EXCEPT !.commands = e.commands, !.files = e.files,
                 !.tools = e.tools, !.outcome = e.outcome]

WeekWithExtras(w, e) ==
  IF w.ty # "object" THEN w
  ELSE [w EXCEPT !.resources = e.resources,
                 !.topics.items =
                   [i \in 1..Len(@) |-> TopicWithExtras(@[i], e)]]

WithExtras(v, e) ==
  IF v.ty # "object" THEN v
  ELSE [v EXCEPT !.roadmap.items =
                   [i \in 1..Len(@) |-> WeekWithExtras(@[i], e)]]

ValidateInputs == {WithExtras(v, e) : v \in ModelValues, e \in ExtrasSamples}

InitValidate ==
  /\ PipelineIdle
  /\ \E v \in ValidateInputs :
       unit = [fn |-> "validateRoadmap", done |-> FALSE, args |-> v,
               threw |-> FALSE, out |-> "none"]

CallValidate ==
  /\ unit.fn = "validateRoadmap"
  /\ ~unit.done
  /\ LET r == validateRoadmap(unit.args)
     IN unit' = [unit EXCEPT !.done = TRUE,
                             !.threw = (r = "TypeError"),
                             !.out = r]
  /\ UNCHANGED pipelineVars

NextValidate == CallValidate

SpecValidate == InitValidate /\ [][NextValidate]_vars

ValidateReturned == unit.fn = "validateRoadmap" /\ unit.done

\* C16: validateRoadmap returns true or false on every parsed JSON value,
\* null and non-object elements of roadmap or topics included, and never
\* throws.
C16_ValidateTotal ==
  ValidateReturned => ~unit.threw /\ unit.out \in {"true", "false"}

\* The well-formedness the summary states, over the candidate's fields.
WellFormedTopic(t) ==
  /\ TypeOf(t.title) = "string"
  /\ TypeOf(t.description) = "string"
  /\ TypeOf(t.whyImportant) = "string"
  /\ TypeOf(t.whyThisOrder) = "string"
  /\ TypeOf(t.estimatedHours) = "number"

WellFormedWeek(w) ==
  /\ TypeOf(w.week) = "number"
  /\ TypeOf(w.summary) = "string"
  /\ IsArray(w.topics)
  /\ \A i \in 1..Len(w.topics.items) : WellFormedTopic(w.topics.items[i])

WellFormed(v) ==
  /\ v.ty = "object"
  /\ TypeOf(v.goal) = "string"
  /\ TypeOf(v.totalWeeks) = "number"
  /\ TypeOf(v.weeklyHours) = "number"
  /\ IsArray(v.roadmap)
  /\ \A i \in 1..Len(v.roadmap.items) : WellFormedWeek(v.roadmap.items[i])

HasNoRoadmap(v) == v.ty = "object" /\ ~IsArray(v.roadmap)

HasTopicWithoutHours(v) ==
  /\ v.ty = "object"
  /\ \E i \in 1..Len(v.roadmap.items) :
       LET w == v.roadmap.items[i]
       IN \E j \in 1..Len(w.topics.items) :
            /\ w.topics.items[j].ty = "object"
            /\ w.topics.items[j].estimatedHours = Undefined

\* C17: validateRoadmap returns true exactly on an object with goal a
\* string, totalWeeks and weeklyHours numbers, and roadmap an array of weeks
\* with week a number, summary a string and topics an array of topics with
\* the four strings and estimatedHours a number; an object with no roadmap
\* gets false, a roadmap with a topic lacking estimatedHours is not
\* accepted, and commands, files, tools, outcome and resources, whatever
\* they are, never change the result.
C17_ValidateExactly ==
  ValidateReturned =>
    /\ (unit.out = "true") <=> WellFormed(unit.args)
    /\ HasNoRoadmap(unit.args) => unit.out = "false"
    /\ HasTopicWithoutHours(unit.args) => unit.out # "true"
    /\ \A e \in ExtrasSamples :
         validateRoadmap(WithExtras(unit.args, e)) = unit.out

\* validateRoadmap has accepted a roadmap whose topics carry the unread
\* fields with types the interface does not allow.
C17_Witness ==
  /\ ValidateReturned
  /\ unit.out = "true"
  /\ \E i \in 1..Len(unit.args.roadmap.items) :
       LET w == unit.args.roadmap.items[i]
       IN /\ TypeOf(w.resources) = "string"
          /\ \E j \in 1..Len(w.topics.items) :
               w.topics.items[j].commands # Undefined

----------------------------------------------------------------------------
\* sanitizeJSONString and JSON.parse on characters.  A text is a sequence of
\* one-character strings; each regular expression of sanitizeJSONString is
\* an operator that scans the text from left to right as String.replace with
\* the g flag does (matches do not overlap, the scan resumes after a match).

WordChars ==
  {"a", "b", "c", "d", "e", "f", "g", "h", "i", "j", "k", "l", "m", "n", "o",
   "p", "q", "r", "s", "t", "u", "v", "w", "x", "y", "z", "A", "B", "C", "D",
   "E", "F", "G", "H", "I", "J", "K", "L", "M", "N", "O", "P", "Q", "R", "S",
   "T", "U", "V", "W", "X", "Y", "Z", "0", "1", "2", "3", "4", "5", "6", "7",
   "8", "9", "_"}

Digits == {"0", "1", "2", "3", "4", "5", "6", "7", "8", "9"}

\* The i flag, on the letters of "json".
Lower(c) ==
  CASE c = "J" -> "j" [] c = "S" -> "s" [] c = "O" -> "o" [] c = "N" -> "n"
    [] OTHER -> c

\* \s* from position i: the first position at or after i with no whitespace.
RECURSIVE SkipSpace(_, _)
SkipSpace(s, i) ==
  IF i <= Len(s) /\ s[i] \in Whitespace THEN SkipSpace(s, i + 1) ELSE i

\* \w* from position i.
RECURSIVE SkipWord(_, _)
SkipWord(s, i) ==
  IF i <= Len(s) /\ s[i] \in WordChars THEN SkipWord(s, i + 1) ELSE i

\* [^']* from position i: the position of the next single quote.
RECURSIVE SkipToQuote(_, _)
SkipToQuote(s, i) ==
  IF i <= Len(s) /\ s[i] # "'" THEN SkipToQuote(s, i + 1) ELSE i

\* The character U+0060, written by its name.
Backtick == "backtick"

FenceJson == <<Backtick, Backtick, Backtick, "j", "s", "o", "n">>

Fence == <<Backtick, Backtick, Backtick>>

MatchesAt(s, i, w, fold) ==
  /\ i + Len(w) - 1 <= Len(s)
  /\ \A k \in 1..Len(w) :
       (IF fold THEN Lower(s[i + k - 1]) ELSE s[i + k - 1]) = w[k]

\* .replace(/```json\s*/gi, "") with w = FenceJson, fold = TRUE;
\* .replace(/```\s*/g, "") with w = Fence, fold = FALSE.
RECURSIVE RemoveMarker(_, _, _, _)
RemoveMarker(s, i, w, fold) ==
  IF i > Len(s) THEN <<>>
  ELSE IF MatchesAt(s, i, w, fold)
    THEN RemoveMarker(s, SkipSpace(s, i + Len(w)), w, fold)
    ELSE <<s[i]>> \o RemoveMarker(s, i + 1, w, fold)

FirstIndex(s, c) ==
  IF \E i \in 1..Len(s) : s[i] = c
    THEN CHOOSE i \in 1..Len(s) : s[i] = c /\ \A k \in 1..(i - 1) : s[k] # c
    ELSE 0

LastIndex(s, c) ==
  IF \E i \in 1..Len(s) : s[i] = c
    THEN CHOOSE i \in 1..Len(s) :
           s[i] = c /\ \A k \in (i + 1)..Len(s) : s[k] # c
    ELSE 0

\* jsonText.match(/\{[\s\S]*\}/): from the first "{" to the last "}" after
\* it; without such a span the text stays as it is.
ExtractObject(s) ==
  LET i == FirstIndex(s, "{")
      j == LastIndex(s, "}")
  IN IF i > 0 /\ j > i THEN SubSeq(s, i, j) ELSE s

\* .replace(/,(\s*[}\]])/g, "$1")
RECURSIVE DropTrailingCommas(_, _)
DropTrailingCommas(s, i) ==
  IF i > Len(s) THEN <<>>
  ELSE LET j == SkipSpace(s, i + 1)
       IN IF s[i] = "," /\ j <= Len(s) /\ s[j] \in {"}", "]"}
            THEN SubSeq(s, i + 1, j) \o DropTrailingCommas(s, j + 1)
            ELSE <<s[i]>> \o DropTrailingCommas(s, i + 1)

\* .replace(/([{,]\s*)(\w+)(\s*):/g, ...): the word after "{" or "," and
\* before ":" is put in double quotes; whitespace before the ":" goes.
RECURSIVE QuoteKeys(_, _)
QuoteKeys(s, i) ==
  IF i > Len(s) THEN <<>>
  ELSE LET a == SkipSpace(s, i + 1)
           b == SkipWord(s, a)
           c == SkipSpace(s, b)
       IN IF s[i] \in {"{", ","} /\ b > a /\ c <= Len(s) /\ s[c] = ":"
            THEN SubSeq(s, i, a - 1) \o <<"\"">> \o SubSeq(s, a, b - 1)
                   \o <<"\"", ":">> \o QuoteKeys(s, c + 1)
            ELSE <<s[i]>> \o QuoteKeys(s, i + 1)

\* The third repair, on single quotes: a single-quoted string that follows
\* a colon (and any whitespace) becomes colon, one space, and the string in
\* double quotes.
RECURSIVE SingleToDoubleQuotes(_, _)
SingleToDoubleQuotes(s, i) ==
  IF i > Len(s) THEN <<>>
  ELSE LET a == SkipSpace(s, i + 1)
           b == SkipToQuote(s, a + 1)
       IN IF s[i] = ":" /\ a <= Len(s) /\ s[a] = "'" /\ b <= Len(s)
            THEN <<":", " ", "\"">> \o SubSeq(s, a + 1, b - 1) \o <<"\"">>
                   \o SingleToDoubleQuotes(s, b + 1)
            ELSE <<s[i]>> \o SingleToDoubleQuotes(s, i + 1)

sanitizeJSONStringChars(text) ==
  LET trimmed == Trim(text)
      unfenced == RemoveMarker(RemoveMarker(trimmed, 1, FenceJson, TRUE),
                               1, Fence, FALSE)
      jsonText == ExtractObject(unfenced)
  IN SingleToDoubleQuotes(
       QuoteKeys(DropTrailingCommas(jsonText, 1), 1), 1)

\* JSON.parse on characters, for objects, arrays, strings without escapes
\* and unsigned integers.  The result holds ok, the position after the value
\* and the value as its text without insignificant whitespace, so that two
\* texts stand for the same value when these are equal.
ParseFailure == [ok |-> FALSE, next |-> 0, val |-> <<>>]

ParseResult(next, val) == [ok |-> TRUE, next |-> next, val |-> val]

\* A string: no raw line break and no backslash up to the closing quote.
RECURSIVE StringEnd(_, _)
StringEnd(s, i) ==
  IF i > Len(s) \/ s[i] \in {"\n", "\\"} THEN 0
  ELSE IF s[i] = "\"" THEN i
  ELSE StringEnd(s, i + 1)

ParseString(s, i) ==
  LET j == StringEnd(s, i + 1)
  IN IF j = 0 THEN ParseFailure ELSE ParseResult(j + 1, SubSeq(s, i, j))

RECURSIVE SkipDigits(_, _)
SkipDigits(s, i) ==
  IF i <= Len(s) /\ s[i] \in Digits THEN SkipDigits(s, i + 1) ELSE i

ParseNumber(s, i) ==
  LET j == IF s[i] = "0" THEN i + 1 ELSE SkipDigits(s, i)
  IN ParseResult(j, SubSeq(s, i, j - 1))

RECURSIVE ParseValue(_, _)
RECURSIVE ParseMembers(_, _, _)
RECURSIVE ParseElements(_, _, _)

\* The value that starts at position i (whitespace already skipped).
ParseValue(s, i) ==
  IF i > Len(s) THEN ParseFailure
  ELSE IF s[i] = "\"" THEN ParseString(s, i)
  ELSE IF s[i] \in Digits THEN ParseNumber(s, i)
  ELSE IF s[i] = "{"
    THEN LET j == SkipSpace(s, i + 1)
         IN IF j <= Len(s) /\ s[j] = "}"
              THEN ParseResult(j + 1, <<"{", "}">>)
              ELSE ParseMembers(s, j, <<"{">>)
  ELSE IF s[i] = "["
    THEN LET j == SkipSpace(s, i + 1)
         IN IF j <= Len(s) /\ s[j] = "]"
              THEN ParseResult(j + 1, <<"[", "]">>)
              ELSE ParseElements(s, j, <<"[">>)
  ELSE ParseFailure

\* "key" : value, then "," and more members, or "}".
ParseMembers(s, i, acc) ==
  IF i > Len(s) \/ s[i] # "\"" THEN ParseFailure
  ELSE LET key == ParseString(s, i)
           colon == SkipSpace(s, key.next)
           value == ParseValue(s, SkipSpace(s, colon + 1))
           after == SkipSpace(s, value.next)
           sofar == acc \o key.val \o <<":">> \o value.val
       IN IF ~key.ok THEN ParseFailure
          ELSE IF colon > Len(s) \/ s[colon] # ":" THEN ParseFailure
          ELSE IF ~value.ok \/ after > Len(s) THEN ParseFailure
          ELSE IF s[after] = "}" THEN ParseResult(after + 1, sofar \o <<"}">>)
          ELSE IF s[after] = ","
            THEN ParseMembers(s, SkipSpace(s, after + 1), sofar \o <<",">>)
          ELSE ParseFailure

\* value, then "," and more elements, or "]".
ParseElements(s, i, acc) ==
  LET value == ParseValue(s, i)
      after == SkipSpace(s, value.next)
      sofar == acc \o value.val
  IN IF ~value.ok \/ after > Len(s) THEN ParseFailure
     ELSE IF s[after] = "]" THEN ParseResult(after + 1, sofar \o <<"]">>)
     ELSE IF s[after] = ","
       THEN ParseElements(s, SkipSpace(s, after + 1), sofar \o <<",">>)
     ELSE ParseFailure

\* JSON.parse(text): one value with nothing but whitespace around it.
JSONparseChars(text) ==
  LET value == ParseValue(text, SkipSpace(text, 1))
  IN IF value.ok /\ SkipSpace(text, value.next) = Len(text) + 1
       THEN [ok |-> TRUE, value |-> value.val]
       ELSE [ok |-> FALSE, value |-> <<>>]

----------------------------------------------------------------------------
\* sanitizeJSONString followed by JSON.parse, called on sample texts: a
\* payload (valid JSON, JSON with one kind of defect together with the valid
\* text it stands for, or no JSON at all) in a wrapping of fences and prose.

PayloadOf(defect, text, means) ==
  [defect |-> defect, text |-> text, means |-> means]

ValidPayload(text) == PayloadOf("none", text, text)

SanitizePayloads ==
  {ValidPayload(<<"{", "\"", "a", "\"", ":", "1", "}">>),
   ValidPayload(<<"{", "\"", "a", "\"", ":", "\"", "b", "\"", "}">>),
   ValidPayload(<<"{", "\"", "a", "\"", ":", "[", "1", ",", "2", "]", "}">>),
   ValidPayload(<<"{", "\"", "a", "\"", ":", "{", "\"", "b", "\"", ":", "1",
                "}", "}">>),
   ValidPayload(<<"{", " ", "\"", "a", "\"", " ", ":", " ", "1", " ", "}">>),
   ValidPayload(<<"{", "\"", "a", "\"", ":", "1", ",", "\"", "b", "\"", ":",
                "2", "}">>),
   ValidPayload(<<"{", "}">>),
   ValidPayload(<<"[", "{", "\"", "a", "\"", ":", "1", "}", "]">>),
   ValidPayload(<<"[", "1", ",", "2", "]">>),
   ValidPayload(<<"\"", "a", "\"">>),
   ValidPayload(<<"1">>),
   ValidPayload(<<"{", "\"", "a", "\"", ":", "\"", "x", ",", "b", ":", "1",
                "\"", "}">>),
   ValidPayload(<<"{", "\"", "a", "\"", ":", "\"", "x", ",", "}", "\"",
                "}">>),
   ValidPayload(<<"{", "\"", "a", "\"", ":", "\"", "{", "b", "}", "\"",
                "}">>),
   ValidPayload(<<"{", "\"", "a", "\"", ":", "\"", "[", "1", ",", "]", "\"",
                "}">>),
   ValidPayload(<<"{", "\"", "a", "\"", ":", "\"", ":", "'", "b", "'", "\"",
                "}">>),
   ValidPayload(<<"{", "\"", "a", "\"", ":", "\"", "i", "t", "'", "s", "\"",
                "}">>),
   ValidPayload(<<"{", "\"", "a", "\"", ":", "\"", Backtick, "\"", "}">>),
   ValidPayload(<<"{", "\"", "a", "\"", ":", "\"", Backtick, Backtick, Backtick, "\"",
                "}">>),
   PayloadOf("trailingComma",
             <<"{", "\"", "a", "\"", ":", "1", ",", "}">>,
             <<"{", "\"", "a", "\"", ":", "1", "}">>),
   PayloadOf("trailingComma",
             <<"{", "\"", "a", "\"", ":", "[", "1", ",", "2", ",", "]",
             "}">>,
             <<"{", "\"", "a", "\"", ":", "[", "1", ",", "2", "]", "}">>),
   PayloadOf("trailingComma",
             <<"{", "\"", "a", "\"", ":", "1", " ", ",", " ", "}">>,
             <<"{", "\"", "a", "\"", ":", "1", "}">>),
   PayloadOf("unquotedKey",
             <<"{", "a", ":", "1", "}">>,
             <<"{", "\"", "a", "\"", ":", "1", "}">>),
   PayloadOf("unquotedKey",
             <<"{", "a", ":", "1", ",", "b", "_", "2", ":", "2", "}">>,
             <<"{", "\"", "a", "\"", ":", "1", ",", "\"", "b", "_", "2",
             "\"", ":", "2", "}">>),
   PayloadOf("unquotedKey",
             <<"{", " ", "a", " ", ":", " ", "1", " ", "}">>,
             <<"{", "\"", "a", "\"", ":", "1", "}">>),
   PayloadOf("singleQuoted",
             <<"{", "'", "a", "'", ":", "'", "b", "'", "}">>,
             <<"{", "\"", "a", "\"", ":", "\"", "b", "\"", "}">>),
   PayloadOf("singleQuoted",
             <<"{", "\"", "a", "\"", ":", "'", "b", "'", "}">>,
             <<"{", "\"", "a", "\"", ":", "\"", "b", "\"", "}">>),
   PayloadOf("singleQuoted",
             <<"{", "'", "a", "'", ":", "1", "}">>,
             <<"{", "\"", "a", "\"", ":", "1", "}">>),
   PayloadOf("notJson", <<"a", "b">>, <<>>),
   PayloadOf("notJson", <<>>, <<>>),
   PayloadOf("notJson", <<"{">>, <<>>),
   PayloadOf("notJson", <<"}", "{">>, <<>>)}

Wrappings ==
  {"bare", "padded", "fence", "fenceUpper", "fencePlain", "fenceProse",
   "proseFenceProse", "fenceProseBraces"}

FenceOpen == <<Backtick, Backtick, Backtick, "j", "s", "o", "n", "\n">>

FenceClose == <<"\n", Backtick, Backtick, Backtick>>

Wrap(wrapping, o) ==
  CASE wrapping = "bare" -> o
    [] wrapping = "padded" -> <<" ", "\n">> \o o \o <<"\n", " ">>
    [] wrapping = "fence" -> FenceOpen \o o \o FenceClose
    [] wrapping = "fenceUpper" ->
         <<Backtick, Backtick, Backtick, "J", "S", "O", "N", "\n">> \o o \o FenceClose
    [] wrapping = "fencePlain" -> <<Backtick, Backtick, Backtick, "\n">> \o o \o FenceClose
    [] wrapping = "fenceProse" ->
         FenceOpen \o o \o FenceClose \o <<"\n", "o", "k", " ", "x">>
    [] wrapping = "proseFenceProse" ->
         <<"x", "\n">> \o FenceOpen \o o \o FenceClose \o <<"\n", "y">>
    [] wrapping = "fenceProseBraces" ->
         FenceOpen \o o \o FenceClose \o <<"\n", "{", "x", "}">>

SanitizeArgs ==
  {[text |-> Wrap(w, p.text), wrapping |-> w, defect |-> p.defect,
    means |-> p.means] : p \in SanitizePayloads, w \in Wrappings}

InitSanitize ==
  /\ PipelineIdle
  /\ \E a \in SanitizeArgs :
       unit = [fn |-> "sanitizeJSONString", done |-> FALSE, args |-> a,
               threw |-> FALSE, out |-> <<>>, value |-> <<>>]

\* const cleaned = sanitizeJSONString(raw); const parsed = JSON.parse(cleaned)
CallSanitize ==
  /\ unit.fn = "sanitizeJSONString"
  /\ ~unit.done
  /\ LET cleanedText == sanitizeJSONStringChars(unit.args.text)
         result == JSONparseChars(cleanedText)
     IN unit' = [unit EXCEPT !.done = TRUE,
                             !.threw = ~result.ok,
                             !.out = cleanedText,
                             !.value = result.value]
  /\ UNCHANGED pipelineVars

NextSanitize == CallSanitize

SpecSanitize == InitSanitize /\ [][NextSanitize]_vars

SanitizeReturned == unit.fn = "sanitizeJSONString" /\ unit.done

\* C18: for every text v that is valid JSON, JSON.parse(sanitizeJSONString(v))
\* succeeds and equals JSON.parse(v), whatever punctuation the strings of v
\* hold and whatever the top-level value is.
C18_ValidJSONPreserved ==
  SanitizeReturned /\ JSONparseChars(unit.args.text).ok =>
    /\ ~unit.threw
    /\ unit.value = JSONparseChars(unit.args.text).value

\* C19: a text whose only defect is a trailing comma before } or ], unquoted
\* object keys, or single-quoted strings in key and value position parses
\* after sanitizeJSONString, to the key/value structure it stands for.
C19_DefectsRepaired ==
  SanitizeReturned
    /\ unit.args.wrapping = "bare"
    /\ unit.args.defect \in {"trailingComma", "unquotedKey", "singleQuoted"}
    => /\ ~unit.threw
       /\ unit.value = JSONparseChars(unit.args.means).value

FencedWithProse ==
  {"fence", "fenceProse", "proseFenceProse", "fenceProseBraces"}

IsObjectText(o) == JSONparseChars(o).ok /\ Trim(o)[1] = "{"

\* C20: a valid JSON object text o inside a ```json fence with any prose
\* before and after it is recovered exactly by sanitizeJSONString followed
\* by JSON.parse.
C20_FencedObjectRecovered ==
  SanitizeReturned
    /\ unit.args.wrapping \in FencedWithProse
    /\ unit.args.defect = "none"
    /\ IsObjectText(unit.args.means)
    => /\ ~unit.threw
       /\ unit.value = JSONparseChars(unit.args.means).value

----------------------------------------------------------------------------
\* The normalize pass seen from the response: the model's value is what
\* JSON.parse gave for the cleaned text, before lines 134-145 rewrote it.

ModelOutput == JSONparse(cleaned).value

ReturnedFromModel == pc = "SUCCESS" /\ fallbacks = 0

DefaultSummary(n) ==
  StrVal(<<"Week", " ", ToString(n), " ", "focus for", " ">> \o goal)

\* C22: in a roadmap returned from model output, goal, totalWeeks and
\* weeklyHours are the request's values exactly when the model's value is
\* falsy and the model's value otherwise, so none of them is empty or zero;
\* a week with an empty summary gets "Week <n> focus for <goal>" with n its
\* 1-based position, and resources is an empty array whenever the model's
\* resources is no array.
C22_NormalizerDefaults ==
  ReturnedFromModel =>
    LET m == ModelOutput
        r == response.roadmap
    IN /\ r.goal = (IF m.goal = StrVal(<<>>) THEN StrVal(goal) ELSE m.goal)
       /\ r.totalWeeks =
            (IF m.totalWeeks = IntVal(0) THEN totalDuration ELSE m.totalWeeks)
       /\ r.weeklyHours =
            (IF m.weeklyHours = IntVal(0) THEN weeklyHours ELSE m.weeklyHours)
       /\ r.goal # StrVal(<<>>)
       /\ r.totalWeeks # IntVal(0)
       /\ r.weeklyHours # IntVal(0)
       /\ Len(r.roadmap.items) = Len(m.roadmap.items)
       /\ \A n \in 1..Len(m.roadmap.items) :
            LET mw == m.roadmap.items[n]
                rw == r.roadmap.items[n]
            IN /\ rw.summary = (IF mw.summary = StrVal(<<>>)
                                  THEN DefaultSummary(n) ELSE mw.summary)
               /\ rw.resources = (IF mw.resources.ty = "array"
                                    THEN mw.resources ELSE ArrVal(<<>>))

\* A returned roadmap in which all three top-level defaults, the summary
\* default of the second week and the resources default were applied.
C22_Witness ==
  /\ ReturnedFromModel
  /\ ModelOutput.goal = StrVal(<<>>)
  /\ ModelOutput.totalWeeks = IntVal(0)
  /\ ModelOutput.weeklyHours = IntVal(0)
  /\ \E n \in 2..Len(ModelOutput.roadmap.items) :
       /\ ModelOutput.roadmap.items[n].summary = StrVal(<<>>)
       /\ ModelOutput.roadmap.items[n].resources = Null
       /\ response.roadmap.roadmap.items[n].summary = DefaultSummary(n)

----------------------------------------------------------------------------
\* The time budget of the fallback roadmap.

ReturnedFromFallback == pc = "SUCCESS" /\ fallbacks > 0

RECURSIVE SumHours(_)
SumHours(ts) ==
  IF ts = <<>> THEN 0 ELSE Head(ts).estimatedHours.int + SumHours(Tail(ts))

\* C23: for an integer weeklyHours >= 1 and topicsPerWeek derived as
\* max(1, floor(weeklyHours / 2)), every topic of the fallback roadmap has
\* estimatedHours in 1..3 and the estimatedHours of the topics of one week
\* add up to at most weeklyHours.
C23_FallbackWithinBudget ==
  ReturnedFromFallback /\ ~weeklyHours.frac =>
    \A n \in 1..Len(response.roadmap.roadmap.items) :
      LET topics == response.roadmap.roadmap.items[n].topics.items
      IN /\ \A t \in 1..Len(topics) :
              /\ ~topics[t].estimatedHours.frac
              /\ topics[t].estimatedHours.int \in 1..3
         /\ SumHours(topics) <= weeklyHours.int

\* A fallback roadmap at the upper end of the range (three hours a week,
\* one topic of three hours), and one with hours left over (five hours a
\* week, two topics of two hours) are both reachable; this is the first.
C23_Witness ==
  /\ ReturnedFromFallback
  /\ weeklyHours = IntVal(3)
  /\ Len(response.roadmap.roadmap.items) >= 1
  /\ response.roadmap.roadmap.items[1].topics.items[1].estimatedHours = IntVal(3)

----------------------------------------------------------------------------
\* Several requests handled at the same time.  A handler runs without
\* interruption from one await to the next, so it takes two steps: from the
\* arrival of its body to the awaited provider call (or to an error
\* response), and from the provider's reply to its response.  Everything a
\* handler assigns is a binding of its own invocation; process.env (envKey,
\* nodeEnv) and the cerebras client are shared and only read.

NumHandlers == 2

Handlers == 1..NumHandlers

LocalsOf(p, g, h, d, t, n, r) ==
  [pc |-> p, goal |-> g, weeklyHours |-> h, totalDuration |-> d,
   topicsPerWeekCalc |-> t, totalTopics |-> n, response |-> r]

NoLocals ==
  LocalsOf("POST", <<>>, Undefined, Undefined, 0, Undefined, NoResponse)

Answered(p, r) == [NoLocals EXCEPT !.pc = p, !.response = r]

\* POST from `await req.json()` to `await cerebras.chat.completions.create`.
BeforeAwait(b) ==
  IF b.kind = "malformed"
    THEN Answered("ERROR_500", UncaughtResponse(<<"Unexpected token in JSON">>))
  ELSE IF b.kind = "null"
    THEN Answered("ERROR_500",
           UncaughtResponse(<<"Cannot destructure property 'goal' of null">>))
  ELSE IF InputCheck(b) # NoResponse THEN Answered("ERROR_400", InputCheck(b))
  ELSE IF ~envKey
    THEN Answered("ERROR_502", GenerationErrorResponse(
           <<"CEREBRAS_API_KEY is not configured. Please set CEREBRAS_API_KEY in your environment (e.g., .env.local)">>))
  ELSE LocalsOf("AWAIT_MODEL", Trim(b.goal.str), b.weeklyHours,
                b.totalDuration, TopicsPerWeek(b.weeklyHours),
                Times(b.totalDuration, TopicsPerWeek(b.weeklyHours)),
                NoResponse)

\* generateRoadmapWithAI from the resumed await to its return or throw, and
\* POST's answer.
AfterAwait(l, r) ==
  LET fallback ==
        [l EXCEPT !.pc = "SUCCESS",
                  !.response = RoadmapResponse(
                    generateIntelligentFallback(l.goal, l.weeklyHours,
                      l.totalDuration, l.topicsPerWeekCalc))]
      text == JSONparse(sanitizeJSONString(r.text))
      normalized ==
        NormalizeRoadmap(text.value, l.goal, l.weeklyHours, l.totalDuration)
  IN IF r.kind # "ok"
       THEN IF CatchOfCall(r).pc = "FALLBACK" THEN fallback
            ELSE [l EXCEPT !.pc = CatchOfCall(r).pc,
                           !.response = CatchOfCall(r).response]
     ELSE IF IsEmptyResponse(r.text) THEN fallback
     ELSE IF ~text.ok THEN fallback
     ELSE IF validateRoadmap(text.value) # "true" THEN fallback
     ELSE IF totalTopicsInRoadmap(normalized) = 0 THEN fallback
     ELSE [l EXCEPT !.pc = "SUCCESS", !.response = RoadmapResponse(normalized)]

\* The response of a request handled with no other request around.
ResponseAlone(b, r) ==
  IF BeforeAwait(b).pc = "AWAIT_MODEL"
    THEN AfterAwait(BeforeAwait(b), r).response
    ELSE BeforeAwait(b).response

\* The two steps give what the handler of one request gives step by step.
SequentialAgrees == Done => response = ResponseAlone(body, reply)

ConcurrentBodies ==
  {BodyOf("value", StrVal(<<"a">>), IntVal(2), IntVal(1)),
   BodyOf("value", StrVal(<<"a", "a">>), IntVal(4), IntVal(2)),
   BodyOf("value", StrVal(<<" ">>), IntVal(2), IntVal(1)),
   BodyOf("malformed", Undefined, Undefined, Undefined)}

ConcurrentReplies ==
  {ReplyOf("ok", 200, <<>>, TextOf("text", FALSE, FALSE, TRUE, ModelGood)),
   ReplyOf("ok", 200, <<>>,
           TextOf("text", TRUE, FALSE, TRUE,
                  [ModelGood EXCEPT !.goal = StrVal(<<>>),
                                    !.totalWeeks = IntVal(0),
                                    !.weeklyHours = IntVal(0)])),
   ReplyOf("ok", 200, <<>>,
           TextOf("text", FALSE, FALSE, FALSE, NonObjectRoadmap("undefined"))),
   ReplyOf("APIError", 429, <<"provider: rate limit exceeded">>, NoText),
   ReplyOf("Error", 0, <<"unexpected failure">>, NoText)}

HandlerOf(b) ==
  [body |-> b, reply |-> NoReply, locals |-> NoLocals, overlapped |-> FALSE]

InitConcurrent ==
  /\ pc = "CONCURRENT"
  /\ body = BodyOf("malformed", Undefined, Undefined, Undefined)
  /\ envKey \in BOOLEAN
  /\ nodeEnv \in {"development", "production"}
  /\ goal = <<>>
  /\ weeklyHours = Undefined
  /\ totalDuration = Undefined
  /\ topicsPerWeekCalc = 0
  /\ totalTopics = Undefined
  /\ reply = NoReply
  /\ raw = NoText
  /\ cleaned = NoText
  /\ parsed = NoRoadmap
  /\ response = NoResponse
  /\ calls = 0
  /\ fallbacks = 0
  /\ unit = NoUnit
  /\ handlers \in [Handlers -> {HandlerOf(b) : b \in ConcurrentBodies}]

\* Mutant: the bindings live at module level, where the first request's
\* are seen by every handler.
BindingsOf_ModuleLevel(h) == handlers[1].locals

\* The bindings of handler h's own invocation.
BindingsOf(h) == handlers[h].locals

OthersAwaiting(h) ==
  \E g \in Handlers \ {h} : handlers[g].locals.pc = "AWAIT_MODEL"

\* Handler h's body arrives and it runs to its awaited provider call.
Begin(h) ==
  /\ handlers[h].locals.pc = "POST"
  /\ handlers' = [handlers EXCEPT ![h].locals = BeforeAwait(handlers[h].body)]
  /\ UNCHANGED <<pc, body, envKey, nodeEnv, goal, weeklyHours, totalDuration,
                 topicsPerWeekCalc, totalTopics, reply, raw, cleaned, parsed,
                 response, calls, fallbacks, unit>>

\* The provider answers handler h's call and it runs to its response.
\* `overlapped` records, for the properties only, that another handler was
\* waiting at that moment.
Resume(h) ==
  /\ handlers[h].locals.pc = "AWAIT_MODEL"
  /\ \E r \in ConcurrentReplies :
       handlers' = [handlers EXCEPT ![h].reply = r,
                                    ![h].locals = AfterAwait(BindingsOf(h), r),
                                    ![h].overlapped = OthersAwaiting(h)]
  /\ UNCHANGED <<pc, body, envKey, nodeEnv, goal, weeklyHours, totalDuration,
                 topicsPerWeekCalc, totalTopics, reply, raw, cleaned, parsed,
                 response, calls, fallbacks, unit>>

NextConcurrent == \E h \in Handlers : Begin(h) \/ Resume(h)

SpecConcurrent == InitConcurrent /\ [][NextConcurrent]_vars

HandlerDone(h) ==
  handlers[h].locals.pc \in {"SUCCESS", "ERROR_400", "ERROR_500", "ERROR_502"}

ResponsesAsAlone ==
  \A h \in DOMAIN handlers :
    HandlerDone(h) =>
      handlers[h].locals.response =
        ResponseAlone(handlers[h].body, handlers[h].reply)

OnlyOwnBindings ==
  /\ envKey' = envKey
  /\ nodeEnv' = nodeEnv
  /\ \E h \in DOMAIN handlers :
       \A g \in DOMAIN handlers \ {h} : handlers'[g] = handlers[g]

\* C21: however the handlers of several requests interleave around their
\* awaited provider calls, each response is the one the request would get
\* alone with the same body, key presence and provider reply, and a step of
\* one handler changes neither another handler's bindings nor the shared
\* environment.
C21_RequestsIsolated == []ResponsesAsAlone /\ [][OnlyOwnBindings]_vars

\* Two requests with different goals were both answered from model output
\* that left the goal to the normalizer, the second while the first was
\* still waiting for the provider.
C21_Witness ==
  /\ handlers # <<>>
  /\ HandlerDone(1) /\ HandlerDone(2)
  /\ handlers[1].body # handlers[2].body
  /\ handlers[2].overlapped
  /\ handlers[1].reply.text.value.goal = StrVal(<<>>)
  /\ handlers[2].reply.text.value.goal = StrVal(<<>>)
  /\ handlers[1].locals.response.roadmap.goal = StrVal(<<"a">>)
  /\ handlers[2].locals.response.roadmap.goal = StrVal(<<"a", "a">>)

----------------------------------------------------------------------------
\* The multi-model variant of generateRoadmapWithAI (src/unnamed/part_000),
\* called on its own: the key check, the loop over the candidate models and
\* the template roadmap after the loop.  One pass of the loop body is one
\* step; what the model's endpoint did in that pass is the step's input.

models ==
  <<"mistralai/Mistral-7B-Instruct-v0.1", "HuggingFaceH4/zephyr-7b-beta",
    "google/flan-t5-xxl", "microsoft/DialoGPT-large">>

\* What one pass can meet: fetch rejects; a status that is not ok; an ok
\* status whose body is no JSON (response.json() rejects); or a generated
\* text.
OutcomeOf(kind, status, text) == [kind |-> kind, status |-> status, text |-> text]

VariantWeekBare ==
  [ModelWeek(1, <<ModelTopic>>) EXCEPT !.week = Undefined,
                                       !.summary = Undefined,
                                       !.topics = NotArray("undefined")]

VariantValues ==
  {ModelGood,
   [ModelGood EXCEPT !.goal = StrVal(<<>>), !.totalWeeks = IntVal(0),
                     !.weeklyHours = Undefined,
                     !.roadmap = ArrayOf(<<ModelWeek(3, <<ModelTopic>>),
                                           VariantWeekBare>>)],
   [ModelGood EXCEPT !.roadmap = ArrayOf(<<>>)],
   [ModelGood EXCEPT !.roadmap = NotArray("undefined")],
   [ModelGood EXCEPT !.roadmap =
      ArrayOf(<<ModelWeek(1, <<ModelTopic>>), NonObjectWeek("null")>>)],
   NonObjectRoadmap("null")}

VariantOutcomes ==
  {OutcomeOf("fetchThrows", 0, NoText),
   OutcomeOf("jsonThrows", 200, NoText),
   OutcomeOf("text", 200, TextOf("empty", FALSE, FALSE, FALSE, NoRoadmap)),
   OutcomeOf("text", 200, TextOf("text", FALSE, FALSE, FALSE, NoRoadmap)),
   OutcomeOf("text", 200, TextOf("text", TRUE, TRUE, TRUE, ModelGood))}
    \cup {OutcomeOf("http", st, NoText) : st \in {404, 429, 500, 503}}
    \cup {OutcomeOf("text", 200, TextOf("text", FALSE, FALSE, TRUE, v)) :
            v \in VariantValues}

\* Lines 180-196: fences go, text before the first "{" and after the last
\* "}" goes; a text with no brace stays as it is.
VariantClean(text) ==
  [text EXCEPT !.fenced = FALSE,
               !.prose = IF text.json /\ text.value.ty = "object"
                           THEN FALSE ELSE text.prose]

\* The text of a number or string inside a template literal.
TemplateText(v) ==
  IF v.ty = "string" THEN v.str
  ELSE <<ToString(v.int)>> \o (IF v.frac THEN <<".5">> ELSE <<>>)

\* Lines 227-232, the map over the weeks.  Reading week.week of a null
\* element throws; any other element is spread into a new object.
VariantWeek(w, idx) ==
  LET number == IF Truthy(w.week) THEN w.week ELSE IntVal(idx)
  IN WeekObj(
       number,
       IF Truthy(w.summary) THEN w.summary
         ELSE StrVal(<<"Week", " ">> \o TemplateText(number)
                       \o <<" ", "learning activities">>),
       IF w.topics.ty \in {"undefined", "null"} THEN ArrayOf(<<>>)
         ELSE w.topics,
       w.resources)

VariantNormalize(v, a) ==
  RoadmapObj(
    IF Truthy(v.goal) THEN v.goal ELSE StrVal(a.goal),
    IF Truthy(v.totalWeeks) THEN v.totalWeeks ELSE a.totalDuration,
    IF Truthy(v.weeklyHours) THEN v.weeklyHours ELSE a.weeklyHours,
    ArrayOf([idx \in 1..Len(v.roadmap.items) |->
               VariantWeek(v.roadmap.items[idx], idx)]))

\* One pass of the loop body (lines 110-240) for an outcome: "return" with
\* the roadmap, "continue" from one of the continue statements, or "catch"
\* when something thrown inside the try reaches catch (modelError), which
\* also continues.
VariantPass(o, a) ==
  LET roadmap == JSONparse(VariantClean(o.text))
      goOn(how) == [how |-> how, roadmap |-> NoRoadmap]
  IN IF o.kind = "fetchThrows" THEN goOn("catch")
     ELSE IF o.kind = "http"
       THEN IF o.status \in {410, 404} THEN goOn("continue")
            ELSE IF o.status \in {503, 429} THEN goOn("catch")
            ELSE goOn("continue")
     ELSE IF o.kind = "jsonThrows" THEN goOn("catch")
     ELSE IF IsEmptyResponse(o.text) THEN goOn("continue")
     ELSE IF ~roadmap.ok THEN goOn("continue")
     ELSE IF ThrowsOnRead(roadmap.value) THEN goOn("catch")
     ELSE IF ~IsArray(roadmap.value.roadmap) THEN goOn("continue")
     ELSE IF Len(roadmap.value.roadmap.items) = 0 THEN goOn("continue")
     ELSE IF \E i \in 1..Len(roadmap.value.roadmap.items) :
               ThrowsOnRead(roadmap.value.roadmap.items[i])
       THEN goOn("catch")
     ELSE [how |-> "return", roadmap |-> VariantNormalize(roadmap.value, a)]

\* Lines 247-274: the template roadmap after the loop.
VariantTopic(a, perWeek, week, i) ==
  TopicObj(
    StrVal(<<"Day", " ", ToString((week - 1) * perWeek + i + 1), ":", " ",
             "Core Learning Topic", " ", ToString(i + 1)>>),
    StrVal(<<"Focus on essential concepts and practical exercises related to",
             " ">> \o a.goal
             \o <<". Build hands-on projects and practice regularly.">>),
    IntVal(FloorDiv(a.weeklyHours, perWeek)),
    StrVal(<<"This topic is crucial for mastering", " ">> \o a.goal
             \o <<" ", "and building a strong foundation.">>),
    StrVal(<<"This sequence ensures you learn prerequisites before advanced concepts.">>),
    ArrVal(<<"npm init -y", "git init">>),
    ArrVal(<<"week" \o ToString(week) \o "_topic" \o ToString(i + 1) \o ".js",
             "README.md">>),
    ArrVal(<<"Code Editor", "Terminal", "Git">>),
    StrVal(<<"You will have a working project demonstrating the core concepts for",
             " ">> \o a.goal \o <<".">>))

VariantTemplate(a) ==
  LET perWeek == Max(1, FloorDiv(a.weeklyHours, 2))
  IN RoadmapObj(
       StrVal(a.goal), a.totalDuration, a.weeklyHours,
       ArrayOf([week \in 1..Max(0, a.totalDuration.int) |->
         WeekObj(IntVal(week),
                 StrVal(<<"Week", " ", ToString(week), " ",
                          "focuses on building foundational skills for", " ">>
                          \o a.goal),
                 ArrayOf([t \in 1..perWeek |->
                            VariantTopic(a, perWeek, week, t - 1)]),
                 Undefined)]))

VariantArgs ==
  [goal : {<<"a">>},
   weeklyHours : {IntVal(2), NumVal(5, TRUE)},
   totalDuration : {IntVal(1), NumVal(2, TRUE)},
   apiKey : BOOLEAN]

InitVariant ==
  /\ PipelineIdle
  /\ \E a \in VariantArgs :
       unit = [fn |-> "generateRoadmapWithAI", done |-> FALSE, args |-> a,
               threw |-> FALSE, out |-> NoRoadmap, at |-> "key",
               tried |-> <<>>, outcomes |-> <<>>, from |-> "none"]

\* Lines 34-42.
VariantCheckKey ==
  /\ unit.fn = "generateRoadmapWithAI"
  /\ unit.at = "key"
  /\ unit' = IF unit.args.apiKey
               THEN [unit EXCEPT !.at = "loop"]
               ELSE [unit EXCEPT !.at = "end", !.done = TRUE, !.threw = TRUE]
  /\ UNCHANGED pipelineVars

\* Mutant: a loading or rate-limited model ends the request, as it would
\* with the two throw statements outside the try.
TryModel_AbortOnBusy ==
  /\ unit.fn = "generateRoadmapWithAI"
  /\ unit.at = "loop"
  /\ Len(unit.tried) < Len(models)
  /\ \E o \in VariantOutcomes :
       LET pass == VariantPass(o, unit.args)
           called == [unit EXCEPT
                        !.tried = Append(@, models[Len(@) + 1]),
                        !.outcomes = Append(@, o)]
       IN unit' = IF pass.how = "return"
                    THEN [called EXCEPT !.at = "end", !.done = TRUE,
                                        !.out = pass.roadmap,
                                        !.from = "model"]
                  ELSE IF o.kind = "http" /\ o.status \in {503, 429}
                    THEN [called EXCEPT !.at = "end", !.done = TRUE,
                                        !.threw = TRUE]
                    ELSE called
  /\ UNCHANGED pipelineVars

\* for (const modelName of models): the next model of the list is called
\* and the pass returns or goes on.
TryModel ==
  /\ unit.fn = "generateRoadmapWithAI"
  /\ unit.at = "loop"
  /\ Len(unit.tried) < Len(models)
  /\ \E o \in VariantOutcomes :
       LET pass == VariantPass(o, unit.args)
           called == [unit EXCEPT
                        !.tried = Append(@, models[Len(@) + 1]),
                        !.outcomes = Append(@, o)]
       IN unit' = IF pass.how = "return"
                    THEN [called EXCEPT !.at = "end", !.done = TRUE,
                                        !.out = pass.roadmap,
                                        !.from = "model"]
                    ELSE called
  /\ UNCHANGED pipelineVars

\* The loop has ended without a return.
VariantFallback ==
  /\ unit.fn = "generateRoadmapWithAI"
  /\ unit.at = "loop"
  /\ Len(unit.tried) = Len(models)
  /\ unit' = [unit EXCEPT !.at = "end", !.done = TRUE,
                          !.out = VariantTemplate(unit.args),
                          !.from = "template"]
  /\ UNCHANGED pipelineVars

NextVariant == VariantCheckKey \/ TryModel \/ VariantFallback

SpecVariant == InitVariant /\ [][NextVariant]_vars

VariantRunning == unit.fn = "generateRoadmapWithAI"

\* The outcome's text parses to a value with a non-empty roadmap array.
ParsesWithRoadmap(o) ==
  /\ o.kind = "text"
  /\ o.text.content = "text"
  /\ JSONparse(VariantClean(o.text)).ok
  /\ JSONparse(VariantClean(o.text)).value.ty = "object"
  /\ JSONparse(VariantClean(o.text)).value.roadmap.ty = "array"
  /\ JSONparse(VariantClean(o.text)).value.roadmap.items # <<>>

HasNullWeek(o) ==
  \E i \in 1..Len(o.text.value.roadmap.items) :
    o.text.value.roadmap.items[i].ty = "null"

InListOrderOnce ==
  /\ Len(unit.tried) <= Len(models)
  /\ Len(unit.outcomes) = Len(unit.tried)
  /\ \A k \in 1..Len(unit.tried) : unit.tried[k] = models[k]

\* The parts of C24 that do not depend on what counts as a model's success:
\* list order, each model at most once, no failure ends the request, the
\* template only after all models, and a roadmap whenever the key is set.
VariantCommon ==
  /\ InListOrderOnce
  /\ unit.args.apiKey => ~unit.threw
  /\ unit.done /\ unit.from = "template" => Len(unit.tried) = Len(models)
  /\ unit.done /\ unit.args.apiKey =>
       /\ unit.from \in {"model", "template"}
       /\ unit.out.ty = "object"
       /\ unit.out.roadmap.ty = "array"
       /\ unit.out.roadmap.items # <<>>

\* C24 as stated: models are tried in list order, each at most once; every
\* failure moves on to the next model; the first model whose output parses
\* with a non-empty roadmap array is returned and no later model is called;
\* the template comes only after all four have failed; with a key set a
\* valid request always gets a roadmap.
C24_Original ==
  VariantRunning =>
    /\ VariantCommon
    /\ \A k \in 1..Len(unit.outcomes) :
         ParsesWithRoadmap(unit.outcomes[k]) =>
           /\ k = Len(unit.outcomes)
           /\ unit.done /\ unit.from = "model"
    /\ unit.done /\ unit.from = "model" =>
         ParsesWithRoadmap(unit.outcomes[Len(unit.outcomes)])

\* C24, with the success of a model being an output that parses with a
\* non-empty roadmap array none of whose elements is null: such an output is
\* returned at once, normalized, and no later model is called; every other
\* outcome moves on to the next model.
C24_FirstUsableModelWins ==
  VariantRunning =>
    /\ VariantCommon
    /\ \A k \in 1..Len(unit.outcomes) :
         LET o == unit.outcomes[k]
         IN IF ParsesWithRoadmap(o) /\ ~HasNullWeek(o)
              THEN /\ k = Len(unit.outcomes)
                   /\ unit.done /\ unit.from = "model"
                   /\ unit.out = VariantNormalize(o.text.value, unit.args)
              ELSE k < Len(unit.outcomes) \/ unit.from # "model"

\* The first model was rate limited, the second was loading, the third
\* answered with a usable roadmap, and the fourth was never called.
C24_Witness ==
  /\ VariantRunning
  /\ unit.done
  /\ unit.from = "model"
  /\ Len(unit.tried) = 3
  /\ unit.outcomes[1] = OutcomeOf("http", 429, NoText)
  /\ unit.outcomes[2] = OutcomeOf("http", 503, NoText)
  /\ unit.out.roadmap.items # <<>>

=============================================================================
